---- MODULE Spec2Model ----
(***************************************************************************)
(* Parlance: peer discovery over UDP multicast and the shared peer         *)
(* registry.  The registry (core/peer.rs) is a map PeerId -> Peer behind   *)
(* one RwLock; the discovery service (network/discovery.rs) feeds it from  *)
(* its listen task and sweeps it from its cleanup task.                    *)
(*                                                                         *)
(* Time is the reading of Instant::now(), a non-decreasing clock: two      *)
(* readings may be equal.  Every registry method takes the lock once, so   *)
(* each method call is one atomic step.                                    *)
(***************************************************************************)
EXTENDS Integers, FiniteSets, Sequences, TLC

\* ---------------------------------------------------------------- bounds
MaxTime == 2            \* the clock runs over 0..MaxTime
MaxTimeout == 1         \* remove_timed_out is called with timeouts 0..MaxTimeout
MaxAnnounces == 2       \* the Announces the announce task sends

\* ------------------------------------------------------- protocol constants
MULTICAST_PORT == 6789
U16_MAX == 65535

\* ------------------------------------------------------------ input sets
LocalNickname == "Me"                       \* DiscoveryConfig.nickname
OtherNicknames == {"Alice", "Bob"}
Nicknames == OtherNicknames \cup {LocalNickname}
Ips == {"10.0.0.1", "10.0.0.2"}             \* source addresses seen by recv_from
SpoofIp == "6.6.6.6"                        \* an address only a message body names
Ports == {9000, 9001}                       \* announced TCP ports
BadPort == U16_MAX + 1                      \* does not fit a u16
Timeouts == 0..MaxTimeout                   \* timeouts a caller passes
ConfiguredTimeouts == {0, 1}                \* peer timeouts the configuration supplies

\* ------------------------------------------------------------- core/peer.rs
SocketAddr(ip, port) == [ip |-> ip, port |-> port]

\* the peer addresses of the model: two ports on one host, one on the other
Addrs == {SocketAddr("10.0.0.1", 9000), SocketAddr("10.0.0.1", 9001),
          SocketAddr("10.0.0.2", 9000)}

\* format!("{}", addr): the text "ip:port" of an address
Display(addr) == <<addr.ip, ":", addr.port>>

\* PeerId::from_addr: the v5 UUID of the address text (a hash taken as
\* collision-free: equal ids exactly for equal address texts)
from_addr_ip_only(addr) == [namespace |-> "NAMESPACE_DNS", name |-> <<addr.ip>>]
from_addr(addr) == [namespace |-> "NAMESPACE_DNS", name |-> Display(addr)]

\* Peer::new at clock reading t
PeerNew(nickname, addr, t) ==
    [id |-> from_addr(addr), nickname |-> nickname, addr |-> addr, last_seen |-> t]

\* Peer::refresh at clock reading t
refresh_kept(p, t) == p
refresh(p, t) == [p EXCEPT !.last_seen = t]

\* Instant::elapsed at clock reading t (saturating)
elapsed(last_seen, t) == IF t >= last_seen THEN t - last_seen ELSE 0

\* Peer::is_timed_out at clock reading t
is_timed_out(p, timeout, t) == elapsed(p.last_seen, t) > timeout

\* PeerRegistry::upsert on the map P at clock reading t: the map afterwards
upsert_replace(P, p, t) == (p.id :> p) @@ P
upsert_keep(P, p, t) == IF p.id \in DOMAIN P THEN P ELSE (p.id :> p) @@ P
upsert(P, p, t) ==
    IF p.id \in DOMAIN P
    THEN [P EXCEPT ![p.id] =
            [refresh(@, t) EXCEPT !.nickname = p.nickname, !.addr = p.addr]]
    ELSE (p.id :> p) @@ P

\* PeerRegistry::remove: the map afterwards
remove_none(P, id) == P
remove(P, id) == [i \in DOMAIN P \ {id} |-> P[i]]

\* PeerRegistry::remove_timed_out at clock reading t: the ids collected, the
\* records returned and the map afterwards
timed_out_ids_none(P, timeout, t) == {}
timed_out_ids_ge(P, timeout, t) ==
    {i \in DOMAIN P : elapsed(P[i].last_seen, t) >= timeout}
timed_out_ids(P, timeout, t) == {i \in DOMAIN P : is_timed_out(P[i], timeout, t)}

removed_peers(P, timeout, t) == {P[i] : i \in timed_out_ids(P, timeout, t)}

remove_timed_out(P, timeout, t) ==
    [i \in DOMAIN P \ timed_out_ids(P, timeout, t) |-> P[i]]

\* PeerRegistry::get_all, get, count (the Vec of get_all taken as a set: its
\* order is the HashMap's)
get_all(P) == {P[i] : i \in DOMAIN P}
get(P, id) == IF id \in DOMAIN P THEN <<P[id]>> ELSE <<>>
count(P) == Cardinality(DOMAIN P)

\* PeerRegistry::new
EmptyRegistry == [i \in {} |-> i]

\* ------------------------------------------------------ network/discovery.rs
\* A datagram body: bytes that are JSON text of an object or are not; an object
\* is the set of its keys and the values under them.
Body(json, keys, type, nickname, tcp_port, ip) ==
    [json |-> json, keys |-> keys, type |-> type, nickname |-> nickname,
     tcp_port |-> tcp_port, ip |-> ip]

AnnounceBodies ==
    {Body(TRUE, {"type", "nickname", "tcp_port"}, "announce", n, p, "") :
        n \in Nicknames, p \in Ports}
SpoofBodies ==
    {Body(TRUE, {"type", "nickname", "tcp_port", "ip"}, "announce", "Alice", 9000, SpoofIp)}
GoodbyeBodies ==
    {Body(TRUE, {"type", "nickname"}, "goodbye", n, 0, "") : n \in Nicknames}
MalformedBodies ==
    { Body(FALSE, {}, "", "", 0, ""),                                          \* not JSON
      Body(TRUE, {"type", "nickname", "tcp_port"}, "hello", "Alice", 9000, ""),  \* unknown tag
      Body(TRUE, {"nickname", "tcp_port"}, "", "Alice", 9000, ""),             \* no tag
      Body(TRUE, {"type", "tcp_port"}, "announce", "", 9000, ""),              \* no nickname
      Body(TRUE, {"type", "nickname"}, "announce", "Alice", 0, ""),            \* no tcp_port
      Body(TRUE, {"type", "nickname", "tcp_port"}, "announce", "Alice", BadPort, "") }
Bodies == AnnounceBodies \cup SpoofBodies \cup GoodbyeBodies \cup MalformedBodies

\* what recv_from can return: a body and the source address observed
Datagrams ==
    {dg \in {[from |-> SocketAddr(i, MULTICAST_PORT), data |-> b] : i \in Ips, b \in Bodies} :
        dg.data.type = "announce" /\ dg.data.tcp_port \in Ports
            => SocketAddr(dg.from.ip, dg.data.tcp_port) \in Addrs}

\* serde_json::from_slice::<DiscoveryMessage>: the enum is tagged by "type",
\* variant names lowercased; unknown keys are skipped
Err == [ok |-> FALSE, variant |-> "", nickname |-> "", tcp_port |-> 0]
from_slice(data) ==
    IF ~data.json THEN Err
    ELSE IF "type" \notin data.keys THEN Err
    ELSE IF data.type = "announce"
         THEN IF /\ "nickname" \in data.keys
                 /\ "tcp_port" \in data.keys
                 /\ data.tcp_port \in 0..U16_MAX
              THEN [ok |-> TRUE, variant |-> "Announce",
                    nickname |-> data.nickname, tcp_port |-> data.tcp_port]
              ELSE Err
    ELSE IF data.type = "goodbye"
         THEN IF "nickname" \in data.keys
              THEN [ok |-> TRUE, variant |-> "Goodbye",
                    nickname |-> data.nickname, tcp_port |-> 0]
              ELSE Err
    ELSE Err

\* DiscoveryMessage, and serde_json::to_vec of one: an object tagged by "type"
\* with the variant's name in lowercase, then the variant's fields
Announce(nickname, tcp_port) ==
    [variant |-> "Announce", nickname |-> nickname, tcp_port |-> tcp_port]
Goodbye(nickname) == [variant |-> "Goodbye", nickname |-> nickname, tcp_port |-> 0]
lowercase(variant) == IF variant = "Announce" THEN "announce" ELSE "goodbye"
tag_as_named(variant) == variant
tag(variant) == lowercase(variant)
to_vec(msg) ==
    IF msg.variant = "Announce"
    THEN Body(TRUE, {"type", "nickname", "tcp_port"}, tag(msg.variant),
              msg.nickname, msg.tcp_port, "")
    ELSE Body(TRUE, {"type", "nickname"}, tag(msg.variant), msg.nickname, 0, "")

\* listen task, Announce arm: `nickname == listen_config.nickname`
is_self_never(nickname) == FALSE
is_self(nickname) == nickname = LocalNickname

\* listen task, Announce arm: the address of the peer to upsert
peer_addr_from_body(dg, msg) ==
    SocketAddr(IF "ip" \in dg.data.keys THEN dg.data.ip ELSE dg.from.ip, msg.tcp_port)
peer_addr(dg, msg) == SocketAddr(dg.from.ip, msg.tcp_port)

\* listen task, Goodbye arm: a log line; the map afterwards
on_goodbye_remove(P, nickname) ==
    [i \in {j \in DOMAIN P : P[j].nickname # nickname} |-> P[i]]
on_goodbye(P, nickname) == P

\* listen task, Err arm of the decode: a log line, then the next iteration
after_decode_error_stop == "stopped"
after_decode_error == "recv"

\* DiscoveryService::run: the three tasks it spawns, and the value it returns
\* once the select! over their JoinHandles has completed
DiscoveryTasks == {"announce", "listen", "cleanup"}
run_return == "Ok"

\* a JoinHandle is dropped (the select! of run drops those of the arms not
\* taken when it completes): the task is detached and runs on
drop_handle_aborts(task) == IF task = "running" THEN "aborted" ELSE task
drop_handle(task) == task

\* the datagrams of the runs that follow DiscoveryService::run to its return
RunDatagrams ==
    {dg \in Datagrams : dg.from.ip = "10.0.0.1" /\ dg.data.nickname \in {"Alice", "Me"}
                        /\ dg.data.tcp_port = 9000 /\ dg.data.type = "announce"
                        /\ "ip" \notin dg.data.keys}

\* ------------------------------------------------------ network/messaging.rs
\* Text is a sequence of characters.  A nickname is taken as one character,
\* and so is each key of a JSON object with its quotes and colon.
LF == "LF"
CR == "CR"
QUOTE == "QUOTE"
BSL == "BSL"
Text(nickname) == <<nickname>>

\* the contents a caller passes to send_message
Contents == {<<>>, <<"a", CR, LF, "b">>, <<BSL, "n", QUOTE>>}
\* the nicknames a caller passes to send_message
SendTargets == {"Bob", "bob"}

\* TextMessage::new at clock reading t
TextMessageNew(from, content, t) == [from |-> from, content |-> content, timestamp |-> t]

\* serde_json's string escapes, and a string between its quotes
escape(c) ==
    IF c = LF THEN <<BSL, "n">>
    ELSE IF c = CR THEN <<BSL, "r">>
    ELSE IF c = QUOTE THEN <<BSL, QUOTE>>
    ELSE IF c = BSL THEN <<BSL, BSL>>
    ELSE <<c>>

RECURSIVE escaped(_)
escaped(s) == IF s = <<>> THEN <<>> ELSE escape(Head(s)) \o escaped(Tail(s))

quoted(s) == <<QUOTE>> \o escaped(s) \o <<QUOTE>>

\* serde_json::to_string(&TextMessage): one object, fields in declaration order
to_string_raw(msg) ==
    <<"{", "from:", QUOTE>> \o msg.from \o <<QUOTE, ",", "content:", QUOTE>>
        \o msg.content \o <<QUOTE, ",", "timestamp:", ToString(msg.timestamp), "}">>
to_string(msg) ==
    <<"{", "from:">> \o quoted(msg.from) \o <<",", "content:">> \o quoted(msg.content)
        \o <<",", "timestamp:", ToString(msg.timestamp), "}">>

\* serde_json reading a string: s from position i (after the opening quote)
\* up to the closing quote; a raw control character or an unknown escape is
\* an error
ParseFail == [ok |-> FALSE, val |-> <<>>, next |-> 0]
unescape_verbatim(c) == c
unescape(c) ==
    IF c = "n" THEN LF ELSE IF c = "r" THEN CR ELSE c

RECURSIVE string_body(_, _, _)
string_body(s, i, acc) ==
    IF i > Len(s) THEN ParseFail
    ELSE IF s[i] = QUOTE THEN [ok |-> TRUE, val |-> acc, next |-> i + 1]
    ELSE IF s[i] \in {LF, CR} THEN ParseFail
    ELSE IF s[i] = BSL
         THEN IF i + 1 <= Len(s) /\ s[i + 1] \in {"n", "r", QUOTE, BSL}
              THEN string_body(s, i + 2, Append(acc, unescape(s[i + 1])))
              ELSE ParseFail
    ELSE string_body(s, i + 1, Append(acc, s[i]))

\* the timestamps the model's clock can give, as text
Digits == {ToString(t) : t \in 0..MaxTime}
parse_u64(d) == CHOOSE t \in 0..MaxTime : ToString(t) = d

\* serde_json::from_str::<TextMessage>(line), for objects with their fields in
\* declaration order (the only objects on the model's connections); the line
\* is bound once, as the &str it is
DecodeErr == [ok |-> FALSE, msg |-> <<>>]
from_str(line) ==
    LET decode(s) ==
            LET f == IF Len(s) >= 3 /\ SubSeq(s, 1, 3) = <<"{", "from:", QUOTE>>
                     THEN string_body(s, 4, <<>>) ELSE ParseFail
                c == IF f.ok /\ Len(s) >= f.next + 2
                          /\ SubSeq(s, f.next, f.next + 2) = <<",", "content:", QUOTE>>
                     THEN string_body(s, f.next + 3, <<>>) ELSE ParseFail
            IN  IF /\ c.ok
                   /\ Len(s) = c.next + 3
                   /\ SubSeq(s, c.next, c.next + 1) = <<",", "timestamp:">>
                   /\ s[c.next + 2] \in Digits
                   /\ s[c.next + 3] = "}"
                THEN [ok |-> TRUE,
                      msg |-> [from |-> f.val, content |-> c.val,
                               timestamp |-> parse_u64(s[c.next + 2])]]
                ELSE DecodeErr
    IN  CHOOSE d \in {decode(s) : s \in {line}} : TRUE

\* tokio's Lines::next_line on the unread bytes w of a stream whose writing
\* end is closed (eof) or not: the next line without its "\n" or "\r\n" and
\* the bytes consumed; at end of stream the unterminated rest as it is, then
\* None; "pending" while neither a line nor the end is there
RECURSIVE index_of(_, _, _)
index_of(s, c, i) ==
    IF i > Len(s) THEN 0 ELSE IF s[i] = c THEN i ELSE index_of(s, c, i + 1)

strip_cr(l) == IF l # <<>> /\ l[Len(l)] = CR THEN SubSeq(l, 1, Len(l) - 1) ELSE l

next_line(w, eof) ==
    LET i == index_of(w, LF, 1) IN
    IF i > 0 THEN [kind |-> "line", line |-> strip_cr(SubSeq(w, 1, i - 1)), used |-> i]
    ELSE IF ~eof THEN [kind |-> "pending", line |-> <<>>, used |-> 0]
    ELSE IF w = <<>> THEN [kind |-> "none", line |-> <<>>, used |-> 0]
    ELSE [kind |-> "line", line |-> w, used |-> Len(w)]

\* Result<()> of send_message
Result(kind, detail) == [kind |-> kind, detail |-> detail]
NoResult == Result("none", "")
Ok == Result("Ok", "")
PeerNotFound(to) == Result("PeerNotFound", to)
Network(op) == Result("Network", op)

\* MessageEvent
Sent(to, content) == [event |-> "Sent", to |-> to, content |-> content]
SendError(to, error) == [event |-> "SendError", to |-> to, error |-> error]
Received(msg) == [event |-> "Received", msg |-> msg]

\* the Vec that get_all returns: the map's values in the HashMap's order,
\* which is any order
Orders(S) ==
    {q \in [1..Cardinality(S) -> S] : \A i, j \in 1..Cardinality(S) : q[i] = q[j] => i = j}

\* send_message: peers.iter().find(|p| p.nickname == to_nickname), as the
\* position found, 0 for None
find_first_entry(v, to) == IF v = <<>> THEN 0 ELSE 1
find_last(v, to) ==
    LET M == {i \in DOMAIN v : v[i].nickname = to}
    IN  IF M = {} THEN 0 ELSE CHOOSE i \in M : \A j \in M : j <= i
find(v, to) ==
    LET M == {i \in DOMAIN v : v[i].nickname = to}
    IN  IF M = {} THEN 0 ELSE CHOOSE i \in M : \A j \in M : j >= i

\* the guards of the registry's lock a task still holds when get_all has
\* returned to it: get_all's read guard is a local of its body
get_all_guard_kept(G, task) == G \cup {task}
get_all_guard(G, task) == G \ {task}

\* the connections of the model, and the address the peer's listener is bound to
MaxConns == 2
ConnIds == 1..MaxConns
ListenerAddr == SocketAddr("10.0.0.1", 9000)
MsgAddrs == {ListenerAddr, SocketAddr("10.0.0.2", 9000)}

\* A connection to the listener: who opened it ("send": a send_message call;
\* "raw": another TCP client), the writes and every byte the client has written, how many of them the handler has read, whether the
\* client's end is open, the state of the handler task ("none" before accept),
\* and whether the send_message call that opened it has returned Ok.
NoConn == [client |-> "none", writes |-> 0, written |-> <<>>, nread |-> 0,
           open |-> FALSE, handler |-> "none", ok |-> FALSE]
unread(conn) == SubSeq(conn.written, conn.nread + 1, Len(conn.written))

\* A send_message call: where it is suspended ("idle": no call in flight),
\* its arguments, its locals (the Vec of peers, the peer found, the stream,
\* the serialized message) and its result.
IdleSend == [pc |-> "idle", to |-> "", content |-> <<>>, peers |-> <<>>,
             target |-> <<>>, conn |-> 0, data |-> <<>>, result |-> NoResult]
Returned(to, content, result) ==
    [IdleSend EXCEPT !.to = to, !.content = content, !.result = result]

\* the registry's RwLock: write() is granted when no guard is held
can_write_shared(G) == TRUE
can_write(G) == G = {}

\* send_message: the address given to TcpStream::connect, peer.addr of the
\* record found in the vector get_all returned, whatever the directory P
\* holds by then
connect_addr_current(target, P) ==
    LET now_there == {q \in get_all(P) : q.nickname = target.nickname /\ q.addr # target.addr}
    IN  IF now_there = {} THEN target.addr ELSE (CHOOSE q \in now_there : TRUE).addr
connect_addr(target, P) == target.addr

\* send_message: the events put on the channel when the call returns
events_on_return_always(result, to, content) == <<Sent(to, content)>>
events_on_return(result, to, content) ==
    IF result = Ok THEN <<Sent(to, content)>> ELSE <<>>

\* MessagingService::run: whether the loop is back at accept() while handlers
\* of earlier connections run (each handler is spawned, not awaited)
accept_ready_inline(C) == \A c \in DOMAIN C : C[c].handler # "reading"
accept_ready(C) == TRUE

\* handle_connection: the handler's state after a line that fails to decode
\* (a warning, then the next line) and after next_line gave None or Err
after_invalid_line_close == "done"
after_invalid_line == "reading"
after_end_of_stream_retry == "reading"
after_end_of_stream == "done"

\* handle_connection: the handler's state after event_tx.send has failed (the
\* receiver is gone): an error line, then `break`
after_send_error_continue == "reading"
after_send_error == "done"

\* ---------------------------------------------------------------- app/mod.rs
\* The tasks App::run spawns, the TCP port its configuration asks for (0:
\* let the OS assign one) and the ports the OS assigns to a listener bound
\* to port 0.
AppTasks == {"discovery", "messaging", "input", "event"}
RequestedPorts == {0} \cup {9000}
bound_ports(requested) == IF requested = 0 THEN Ports ELSE {requested}

\* ParlanceError::BindError and MulticastJoinError
BindError(address) == Result("BindError", address)
MulticastJoinError(group) == Result("MulticastJoinError", group)

\* what MessagingService::new and DiscoveryService::new can come to: "ok", or
\* the call that failed
MessagingNewOutcomes == {"ok", "bind", "local_addr"}
DiscoveryNewOutcomes == {"ok", "socket", "bind", "join_multicast_v4"}
messaging_new(outcome) ==
    IF outcome = "ok" THEN Ok
    ELSE IF outcome = "bind" THEN BindError("0.0.0.0")
    ELSE Network(outcome)
discovery_new(outcome) ==
    IF outcome = "ok" THEN Ok
    ELSE IF outcome = "join_multicast_v4" THEN MulticastJoinError("239.255.255.250")
    ELSE Network(outcome)

\* the `?` after a constructor: where App::run is next
try_ignored(result, next) == next
try(result, next) == IF result = Ok THEN next ELSE "returned"

\* DiscoveryConfig.tcp_port as App::run fills it in
discovery_tcp_port_requested(requested, actual) == requested
discovery_tcp_port(requested, actual) == actual

\* JoinHandle::abort on a task of App::run: that task is cancelled.  The
\* tasks it has spawned itself are not: the handles it held are dropped with
\* its future, which detaches them.
abort(task) == IF task = "running" THEN "aborted" ELSE task

\* the datagrams App::run sends to the group on its way out: none
\* (send_goodbye has no caller)
shutdown_datagrams_goodbye == <<to_vec(Goodbye(LocalNickname))>>
shutdown_datagrams == <<>>

\* App::run: where it is ("returned": it has returned `result`), its
\* configuration and locals, the tasks it has spawned, whether
\* DiscoveryService::run has spawned its own three, the datagrams the
\* announce task has sent, the runtime ("down" once main has returned and
\* the runtime is dropped, which cancels every task left), and the events
\* the event task has taken from the channel, by the connection they are of
AppInit ==
    [pc |-> "new_messaging", requested |-> 0, listener |-> 0, actual_tcp_port |-> 0,
     discovery |-> <<>>, task |-> [t \in AppTasks |-> "none"], run_started |-> FALSE,
     result |-> NoResult, announced |-> <<>>, runtime |-> "up",
     shown |-> [c \in ConnIds |-> <<>>]]

\* ------------------------------------- core/peer.rs: the registry's callers
\* Two tasks that call upsert, each for the nickname it has heard, and the
\* statements of upsert's body, which run one after the other under the
\* write guard: existing.refresh(), existing.nickname = .., existing.addr = ..
\* when the id is there, peers.insert(..) when it is not.
Callers == {"t1", "t2"}
caller_nickname(t) == IF t = "t1" THEN "Alice" ELSE "Bob"
caller_addrs(t) == IF t = "t1" THEN MsgAddrs ELSE {ListenerAddr}
existing_refresh(P, id, t) ==
    IF id \in DOMAIN P THEN [P EXCEPT ![id] = refresh(@, t)] ELSE P
existing_nickname_kept(P, id, nickname) == P
existing_nickname(P, id, nickname) ==
    IF id \in DOMAIN P THEN [P EXCEPT ![id].nickname = nickname] ELSE P
existing_addr_rekeyed(P, id, addr) ==
    IF id \in DOMAIN P
    THEN [P EXCEPT ![id].addr = addr, ![id].id = from_addr_ip_only(addr)] ELSE P
existing_addr(P, id, addr) ==
    IF id \in DOMAIN P THEN [P EXCEPT ![id].addr = addr] ELSE P
insert(P, p) == [i \in DOMAIN P \cup {p.id} |-> IF i = p.id THEN p ELSE P[i]]

\* the registry's RwLock: read() is granted when no write guard is held (the
\* callers in G hold write guards: only upsert keeps one over several
\* statements)
\* the guard a returning upsert drops
release_kept(G, t) == G
release(G, t) == G \ {t}

can_read_always(G) == TRUE
can_read(G) == G \cap Callers = {}

\* A caller's upsert: where it is ("idle": none in flight; "write": waiting
\* for the write guard; "refreshed", "nicknamed": holding it, that statement
\* done) and the Peer passed.
IdleCall == [pc |-> "idle", p |-> <<>>]

\* The registry call that has returned in the callers' last step, if one
\* has: the method, the id it was about, the records and the number it
\* returned.
Done(op, id, records, n) == [op |-> op, id |-> id, records |-> records, count |-> n]
NoDone == Done("none", <<>>, {}, 0)

\* The callers' upserts, the call just completed, and three histories: the
\* map as the last completed write left it, for each id the nickname passed
\* to the upsert that got the write guard last, and whether an upsert got the
\* guard while another upsert of the same id was in flight.
RegInit ==
    [call |-> [t \in Callers |-> IdleCall],
     done |-> NoDone,
     committed |-> EmptyRegistry,
     winner |-> EmptyRegistry,
     raced |-> FALSE,
     wait |-> {}]

\* ------------------------------------------------------------ app/command.rs
\* Text as a sequence of characters; a word of letters stands as one element.
SPACE == " "
TAB == "TAB"
is_whitespace(c) == c \in {SPACE, TAB, LF, CR}

\* str::trim
RECURSIVE trim_start(_)
trim_start(s) ==
    IF s # <<>> /\ is_whitespace(Head(s)) THEN trim_start(Tail(s)) ELSE s
RECURSIVE trim_end(_)
trim_end(s) ==
    IF s # <<>> /\ is_whitespace(s[Len(s)]) THEN trim_end(SubSeq(s, 1, Len(s) - 1)) ELSE s
trim(s) == trim_end(trim_start(s))

starts_with(s, c) == s # <<>> /\ Head(s) = c

\* str::splitn(2, ' ') collected, and str::split_once(' ')
splitn2(s) ==
    LET i == index_of(s, SPACE, 1)
    IN  IF i = 0 THEN <<s>> ELSE <<SubSeq(s, 1, i - 1), SubSeq(s, i + 1, Len(s))>>
RECURSIVE last_index_of(_, _, _)
last_index_of(s, c, i) ==
    IF i = 0 THEN 0 ELSE IF s[i] = c THEN i ELSE last_index_of(s, c, i - 1)
rsplit_once(s) ==
    LET i == last_index_of(s, SPACE, Len(s))
    IN  [some |-> i # 0, a |-> SubSeq(s, 1, i - 1), b |-> SubSeq(s, i + 1, Len(s))]
split_once(s) ==
    LET i == index_of(s, SPACE, 1)
    IN  [some |-> i # 0, a |-> SubSeq(s, 1, i - 1), b |-> SubSeq(s, i + 1, Len(s))]

\* Result<Command, CommandParseError>: the variant and its fields
CommandResult(kind, to, content, command) ==
    [kind |-> kind, to |-> to, content |-> content, command |-> command]
Send(to, content) == CommandResult("Send", to, content, <<>>)
Peers == CommandResult("Peers", <<>>, <<>>, <<>>)
Quit == CommandResult("Quit", <<>>, <<>>, <<>>)
Help == CommandResult("Help", <<>>, <<>>, <<>>)
UnknownCommand(cmd) == CommandResult("UnknownCommand", <<>>, <<>>, cmd)
MissingArguments == CommandResult("MissingArguments", <<>>, <<>>, <<"/", "send">>)
NotACommand == CommandResult("NotACommand", <<>>, <<>>, <<>>)

\* Command::parse
parse(input) ==
    LET s == trim(input) IN
    IF ~starts_with(s, "/") THEN NotACommand
    ELSE LET parts == splitn2(Tail(s))
             cmd == parts[1]
         IN  IF cmd = <<"send">>
             THEN IF Len(parts) < 2 THEN MissingArguments
                  ELSE LET rest == split_once(parts[2])
                       IN  IF rest.some THEN Send(rest.a, rest.b) ELSE MissingArguments
             ELSE IF cmd = <<"peers">> THEN Peers
             ELSE IF cmd \in {<<"quit">>, <<"exit">>, <<"q">>} THEN Quit
             ELSE IF cmd \in {<<"help">>, <<"h">>} THEN Help
             ELSE UnknownCommand(cmd)

\* "/send n m" for a nickname n and a message m
send_line(n, m) == <<"/", "send", SPACE>> \o n \o <<SPACE>> \o m

\* the nicknames (none with a space), the messages (none empty) and the other
\* lines given to Command::parse
ParseNicknames == {<<"bob">>, <<>>, <<"b", TAB>>}
ParseMessages ==
    {<<"hello">>, <<"hello", SPACE, "world">>, <<SPACE, "hello">>, <<"hello", SPACE>>,
     <<"hello", TAB>>, <<SPACE>>, <<"/", "quit">>}
ParseInputs ==
    {<<>>, <<SPACE>>, <<"hello">>, <<"hello", SPACE, "/", "send">>,
     <<SPACE, "/", "help">>, <<SPACE, SPACE, "/", "peers", SPACE, SPACE>>,
     <<"/">>, <<"/", "unknown">>, <<"/", "Send", SPACE, "bob", SPACE, "hello">>,
     <<"/", "send", "bob">>, <<"/", SPACE, "send">>, <<"/", "send", TAB, "bob", SPACE, "hello">>,
     <<"/", "send">>, <<"/", "send", SPACE>>, <<"/", "send", SPACE, "bob">>,
     <<"/", "send", SPACE, "bob", SPACE>>, <<"/", "send", SPACE, SPACE>>,
     <<"/", "peers">>, <<"/", "peers", SPACE, "now">>, <<"/", "quit">>, <<"/", "exit">>,
     <<"/", "q">>, <<"/", "help">>, <<"/", "h">>}

\* ------------------------------------------------------------- the codecs' inputs
NONASCII == "U+00E9"
CodecNicknames == Nicknames \cup {""}
CodecPorts == {0, U16_MAX} \cup Ports
DiscoveryMessages ==
    {Announce(n, p) : n \in CodecNicknames, p \in CodecPorts}
        \cup {Goodbye(n) : n \in CodecNicknames}
TextMessages ==
    {TextMessageNew(f, c, t) :
        f \in {Text("Alice"), <<>>, <<QUOTE, NONASCII>>},
        c \in Contents \cup {<<NONASCII>>, <<"h", "i">>},
        t \in 0..MaxTime}

\* A pure function applied and what it gave.
Applied(fn, input, output) == [fn |-> fn, input |-> input, output |-> output]
NoCall == Applied("none", <<>>, <<>>)

\* ------------------------------------------------------- the nickname validator
\* NicknameValidator::MIN_LENGTH and MAX_LENGTH
MIN_LENGTH == 1
MAX_LENGTH == 32
NUL == "NUL"
\* char::is_control
is_control(c) == c \in {NUL, TAB, LF, CR}
\* char::len_utf8: the bytes of one character
len_utf8(c) == IF c = NONASCII THEN 2 ELSE 1
\* str::len: the length of the text in bytes
RECURSIVE len(_)
len(s) == IF s = <<>> THEN 0 ELSE len_utf8(Head(s)) + len(Tail(s))
contains(s, c) == \E i \in 1..Len(s) : s[i] = c
\* NicknameValidator::validate: "Ok" or the name of the error
validate(nickname) ==
    IF nickname = <<>> THEN "Empty"
    ELSE IF len(nickname) < MIN_LENGTH THEN "TooShort"
    ELSE IF len(nickname) > MAX_LENGTH THEN "TooLong"
    ELSE IF trim(nickname) = <<>> THEN "WhitespaceOnly"
    ELSE IF nickname # trim(nickname) THEN "LeadingOrTrailingWhitespace"
    ELSE IF contains(nickname, LF) \/ contains(nickname, CR) THEN "ContainsNewline"
    ELSE IF \E i \in 1..Len(nickname) : is_control(nickname[i]) THEN "InvalidCharacters"
    ELSE "Ok"
\* "a".repeat(n)
repeat(c, n) == [i \in 1..n |-> c]
\* the nicknames validated: the lengths around both limits in one-byte and in
\* two-byte characters, and the texts of the repository's tests
ValidateInputs ==
    {repeat("a", n) : n \in {0, MIN_LENGTH, MAX_LENGTH, MAX_LENGTH + 1}}
        \cup {repeat(NONASCII, n) :
                n \in {MIN_LENGTH, MAX_LENGTH \div 2, MAX_LENGTH \div 2 + 1,
                       MAX_LENGTH, MAX_LENGTH + 1}}
        \cup {<<SPACE, SPACE, SPACE>>, <<SPACE, "a">>, <<"a", SPACE>>, <<"a", SPACE, "b">>,
              <<"a", LF, "b">>, <<"a", CR, LF, "b">>, <<"a", NUL, "b">>, <<"a", TAB, "b">>,
              <<TAB, "a">>, <<"a", LF>>}


\* ------------------------------------------------------------------ state
VARIABLES
    now,            \* the reading of Instant::now()
    peers,          \* PeerRegistry.peers: PeerId -> Peer
    peer_timeout,   \* DiscoveryConfig.peer_timeout
    listen_pc,      \* listen task: "recv" (at recv_from), "upsert" (at the
                    \* await of registry.upsert), "stopped"
    dgram,          \* listen task: <<the datagram of this iteration>>, or <<>>
    peer,           \* listen task: <<the Peer built and not yet upserted>>, or <<>>
    last,           \* history: the last operation, its argument and result
    upserted,       \* history: the addresses a caller has passed to upsert
    removal_done,   \* history: a caller's removal has removed a record
    malformed_seen, \* history: some datagram has failed to decode
    tasks,          \* DiscoveryService::run: the state of each spawned task
    run_result,     \* DiscoveryService::run: "pending", or the value returned
    guards,         \* the tasks holding a guard of the registry's RwLock at
                    \* a suspension point
    send,           \* the send_message call in flight, or the last one
    conns,          \* the TCP connections to the messaging listener
    sent,           \* the sender's event channel: the events put on it
    inbox,          \* the listener's event channel: the events put on it, by
                    \* the connection whose handler sent them
    rx_open,        \* the receiver of the listener's event channel is alive
    app,            \* App::run: its position, its locals, the tasks it has
                    \* spawned, the datagrams its announce task has sent
    reg,            \* the registry's callers: the upsert each has in flight,
                    \* and the last call completed with what it returned
    call            \* a pure function applied: its name, input and output

\* the variables of DiscoveryService::run and of the messaging service
run_vars == <<tasks, run_result>>
msg_vars == <<guards, send, conns, sent, inbox, rx_open>>
app_vars == <<app, reg, call>>

vars == <<now, peers, peer_timeout, listen_pc, dgram, peer, last, upserted,
          removal_done, malformed_seen, tasks, run_result, guards, send,
          conns, sent, inbox, rx_open, app, reg, call>>

\* A history record: the operation, the Peer passed (<<p>> or <<>>), the
\* nickname a datagram carried, the timeout passed, the records returned,
\* whether the id passed was present before, and whether the operation before
\* this one was the same call with the same Peer.
Op(op, p, nickname, timeout, removed, existed) ==
    [op |-> op, peer |-> p, nickname |-> nickname, timeout |-> timeout,
     removed |-> removed, existed |-> existed,
     again |-> (p # <<>> /\ last.op = op /\ last.peer = p)]

Init ==
    /\ now = 0
    /\ peers = EmptyRegistry
    /\ peer_timeout \in ConfiguredTimeouts
    /\ listen_pc = "recv"
    /\ dgram = <<>>
    /\ peer = <<>>
    /\ last = [op |-> "init", peer |-> <<>>, nickname |-> "", timeout |-> 0,
               removed |-> {}, existed |-> FALSE, again |-> FALSE]
    /\ upserted = {}
    /\ removal_done = FALSE
    /\ malformed_seen = FALSE
    /\ tasks = [t \in DiscoveryTasks |-> "running"]
    /\ run_result = "pending"
    /\ guards = {}
    /\ send = IdleSend
    /\ conns = [c \in ConnIds |-> NoConn]
    /\ sent = <<>>
    /\ inbox = [c \in ConnIds |-> <<>>]
    /\ rx_open = TRUE
    /\ app = AppInit
    /\ reg = RegInit
    /\ call = NoCall

\* The clock advances.
Tick ==
    /\ now < MaxTime
    /\ now' = now + 1
    /\ UNCHANGED <<peers, peer_timeout, app_vars, listen_pc, dgram, peer, last, upserted,
                   removal_done, malformed_seen>>
    /\ UNCHANGED <<run_vars, msg_vars>>

\* ------------------------------------------------- discovery: listen task
\* One iteration from recv_from up to the next suspension: the datagram is
\* decoded and matched; an Announce of another nickname builds the Peer and
\* suspends in registry.upsert, everything else returns to recv_from.
ListenRecv(dg) ==
    /\ listen_pc = "recv"
    /\ LET msg == from_slice(dg.data) IN
       IF ~msg.ok
       THEN /\ listen_pc' = after_decode_error
            /\ malformed_seen' = TRUE
            /\ last' = Op("recv_malformed", <<>>, "", 0, {}, FALSE)
            /\ UNCHANGED <<peers, peer, dgram>>
       ELSE IF msg.variant = "Announce"
       THEN IF is_self(msg.nickname)
            THEN /\ listen_pc' = "recv"
                 /\ last' = Op("recv_self", <<>>, msg.nickname, 0, {}, FALSE)
                 /\ UNCHANGED <<peers, peer, dgram, malformed_seen>>
            ELSE /\ listen_pc' = "upsert"
                 /\ dgram' = <<dg>>
                 /\ peer' = <<PeerNew(msg.nickname, peer_addr(dg, msg), now)>>
                 /\ last' = Op("recv_announce", <<>>, msg.nickname, 0, {}, FALSE)
                 /\ UNCHANGED <<peers, malformed_seen>>
       ELSE /\ listen_pc' = "recv"
            /\ peers' = on_goodbye(peers, msg.nickname)
            /\ last' = Op("recv_goodbye", <<>>, msg.nickname, 0, {}, FALSE)
            /\ UNCHANGED <<peer, dgram, malformed_seen>>
    /\ UNCHANGED <<now, peer_timeout, app_vars, upserted, removal_done>>
    /\ UNCHANGED <<run_vars, msg_vars>>

\* recv_from fails: an error line, then the next iteration.
ListenRecvError ==
    /\ listen_pc = "recv"
    /\ last' = Op("recv_error", <<>>, "", 0, {}, FALSE)
    /\ UNCHANGED <<now, peers, peer_timeout, app_vars, listen_pc, dgram, peer, upserted,
                   removal_done, malformed_seen>>
    /\ UNCHANGED <<run_vars, msg_vars>>

\* registry.upsert(peer) gets the write lock and runs; the iteration ends.
ListenUpsert ==
    /\ listen_pc = "upsert"
    /\ peers' = upsert(peers, peer[1], now)
    /\ last' = Op("upsert", peer, "", 0, {}, peer[1].id \in DOMAIN peers)
    /\ listen_pc' = "recv"
    /\ dgram' = <<>>
    /\ peer' = <<>>
    /\ UNCHANGED <<now, peer_timeout, app_vars, upserted, removal_done, malformed_seen>>
    /\ UNCHANGED <<run_vars, msg_vars>>

\* ------------------------------------------------ discovery: cleanup task
\* The interval fires and remove_timed_out(peer_timeout) runs.
Cleanup ==
    /\ peers' = remove_timed_out(peers, peer_timeout, now)
    /\ last' = Op("remove_timed_out", <<>>, "", peer_timeout,
                  removed_peers(peers, peer_timeout, now), FALSE)
    /\ UNCHANGED <<now, peer_timeout, app_vars, listen_pc, dgram, peer, upserted,
                   removal_done, malformed_seen>>
    /\ UNCHANGED <<run_vars, msg_vars>>

Next ==
    \/ Tick
    \/ \E dg \in Datagrams : ListenRecv(dg)
    \/ ListenRecvError
    \/ ListenUpsert
    \/ Cleanup

\* The discovery service running: listen task, cleanup task and the clock.
Spec == Init /\ [][Next]_vars

\* Peers that keep announcing: at clock reading t no record, stored or built
\* by the listen task and on its way to upsert, was last reset longer ago
\* than the timeout.
kept_alive(t) ==
    /\ \A i \in DOMAIN peers : elapsed(peers[i].last_seen, t) <= peer_timeout
    /\ peer # <<>> => elapsed(peer[1].last_seen, t) <= peer_timeout

\* The clock advances no further than the next Announce of every peer allows.
TickKeptAlive ==
    /\ kept_alive(now + 1)
    /\ Tick

NextKeepAlive ==
    \/ TickKeptAlive
    \/ \E dg \in Datagrams : ListenRecv(dg)
    \/ ListenUpsert
    \/ Cleanup

\* The discovery service among peers whose Announces arrive, each, before the
\* timeout has passed since the one before.
SpecKeepAlive == Init /\ [][NextKeepAlive]_vars

\* The same under the scheduling the runtime gives: the clock keeps advancing
\* (up to the bound), and the cleanup task's interval keeps firing, so a sweep
\* that would remove something is not postponed forever.
LiveSpec == Spec /\ WF_vars(Tick) /\ WF_vars(Cleanup)

\* ---------------------------------------- the registry called directly
\* A caller of the library (the tests of tests/peer_tests.rs do this) builds
\* records with Peer::new, at this or an earlier clock reading, and calls the
\* registry's methods.
CallerPeers == {PeerNew(n, a, t) : n \in OtherNicknames, a \in Addrs, t \in 0..now}

CallUpsert(p) ==
    /\ peers' = upsert(peers, p, now)
    /\ last' = Op("upsert", <<p>>, "", 0, {}, p.id \in DOMAIN peers)
    /\ upserted' = upserted \cup {p.addr}
    /\ UNCHANGED <<now, peer_timeout, app_vars, listen_pc, dgram, peer, removal_done, malformed_seen>>
    /\ UNCHANGED <<run_vars, msg_vars>>

CallRemoveTimedOut(timeout) ==
    /\ peers' = remove_timed_out(peers, timeout, now)
    /\ last' = Op("remove_timed_out", <<>>, "", timeout,
                  removed_peers(peers, timeout, now), FALSE)
    /\ removal_done' = (removal_done \/ removed_peers(peers, timeout, now) # {})
    /\ UNCHANGED <<now, peer_timeout, app_vars, listen_pc, dgram, peer, upserted, malformed_seen>>
    /\ UNCHANGED <<run_vars, msg_vars>>

CallRemove(id) ==
    /\ peers' = remove(peers, id)
    /\ last' = Op("remove", <<>>, "", 0, {p \in get_all(peers) : p.id = id},
                  id \in DOMAIN peers)
    /\ removal_done' = (removal_done \/ id \in DOMAIN peers)
    /\ UNCHANGED <<now, peer_timeout, app_vars, listen_pc, dgram, peer, upserted, malformed_seen>>
    /\ UNCHANGED <<run_vars, msg_vars>>

NextRegistry ==
    \/ Tick
    \/ \E p \in CallerPeers : CallUpsert(p)
    \/ \E timeout \in Timeouts : CallRemoveTimedOut(timeout)
    \/ \E a \in Addrs : CallRemove(from_addr(a))

\* No discovery service runs here: one configuration stands for all.
InitRegistry == Init /\ peer_timeout = 0

SpecRegistry == InitRegistry /\ [][NextRegistry]_vars

\* ------------------------------------------------ DiscoveryService::run
\* A spawned task ends (its loop has no exit: it panics, or the runtime drops
\* it) and its JoinHandle becomes ready.
TaskTerminates(t) ==
    /\ tasks[t] = "running"
    /\ tasks' = [tasks EXCEPT ![t] = "terminated"]
    /\ UNCHANGED <<now, peers, peer_timeout, app_vars, listen_pc, dgram, peer, last, upserted,
                   removal_done, malformed_seen, run_result, msg_vars>>

\* The select! takes the arm of a ready JoinHandle, logs, drops the other two
\* handles (which detaches their tasks) and run returns.
RunSelect(t) ==
    /\ run_result = "pending"
    /\ tasks[t] = "terminated"
    /\ run_result' = run_return
    /\ tasks' = [u \in DiscoveryTasks |-> drop_handle(tasks[u])]
    /\ last' = Op("run_returned", <<>>, "", 0, {}, FALSE)
    /\ UNCHANGED <<now, peers, peer_timeout, app_vars, listen_pc, dgram, peer, upserted,
                   removal_done, malformed_seen, msg_vars>>

\* The announce task: the interval fires, the Announce is serialized and sent
\* to the group (a failed send_to is logged).
RunAnnounce(outcome) ==
    /\ tasks["announce"] = "running"
    /\ Len(app.announced) < MaxAnnounces
    /\ app' = [app EXCEPT !.announced =
                 IF outcome = "ok"
                 THEN Append(@, to_vec(Announce(LocalNickname, app.actual_tcp_port)))
                 ELSE @]
    /\ last' = Op("announce", <<>>, LocalNickname, 0, {}, FALSE)
    /\ UNCHANGED <<now, peers, peer_timeout, listen_pc, dgram, peer, upserted,
                   removal_done, malformed_seen, run_vars, msg_vars, reg, call>>

NextRun ==
    \/ Tick
    \/ \E outcome \in {"ok", "send_to"} : RunAnnounce(outcome)
    \/ tasks["listen"] = "running" /\ \E dg \in RunDatagrams : ListenRecv(dg)
    \/ tasks["listen"] = "running" /\ ListenUpsert
    \/ tasks["cleanup"] = "running" /\ Cleanup
    \/ \E t \in DiscoveryTasks : TaskTerminates(t)
    \/ \E t \in DiscoveryTasks : RunSelect(t)

\* DiscoveryService::run from its start to its return, with tasks that can end.
SpecRun == Init /\ [][NextRun]_vars

\* ------------------------------------------------ messaging: send_message
\* The call up to its first suspension after the directory read: get_all
\* takes and releases the read lock, find picks the peer; None returns
\* PeerNotFound, Some goes on to TcpStream::connect.
SendCall(to, content) ==
    /\ send.pc = "idle"
    /\ \E v \in Orders(get_all(peers)) :
         LET i == find(v, to)
             held == get_all_guard(guards \cup {"send"}, "send")
         IN  IF i = 0
             THEN /\ send' = Returned(to, content, PeerNotFound(to))
                  /\ sent' = sent \o events_on_return(PeerNotFound(to), to, content)
                  /\ guards' = held \ {"send"}
             ELSE /\ send' = [IdleSend EXCEPT !.pc = "connect", !.to = to,
                                              !.content = content, !.peers = v,
                                              !.target = <<v[i]>>]
                  /\ sent' = sent
                  /\ guards' = held
    /\ UNCHANGED <<now, peers, peer_timeout, app_vars, listen_pc, dgram, peer, last, upserted,
                   removal_done, malformed_seen, conns, inbox, rx_open, run_vars>>

\* connect succeeds (the listener's address only): the connection is
\* established, the message is built and serialized, write_all(data) begins.
SendConnectOk ==
    /\ send.pc = "connect"
    /\ connect_addr(send.target[1], peers) = ListenerAddr
    /\ \E c \in ConnIds :
         /\ conns[c].client = "none"
         /\ \A d \in ConnIds : conns[d].client = "none" => c <= d
         /\ conns' = [conns EXCEPT ![c] = [NoConn EXCEPT !.client = "send",
                                                          !.open = TRUE]]
         /\ send' = [send EXCEPT !.pc = "write_data", !.conn = c,
                        !.data = to_string(TextMessageNew(Text(LocalNickname),
                                                          send.content, now))]
    /\ UNCHANGED <<now, peers, peer_timeout, app_vars, listen_pc, dgram, peer, last, upserted,
                   removal_done, malformed_seen, guards, sent, inbox, rx_open, run_vars>>

\* connect fails (refused, unreachable, timed out): logged and returned.
SendConnectErr ==
    /\ send.pc = "connect"
    /\ send' = Returned(send.to, send.content, Network("connect"))
    /\ sent' = sent \o events_on_return(Network("connect"), send.to, send.content)
    /\ guards' = guards \ {"send"}
    /\ UNCHANGED <<now, peers, peer_timeout, app_vars, listen_pc, dgram, peer, last, upserted,
                   removal_done, malformed_seen, conns, inbox, rx_open, run_vars>>

\* write_all(data) completes.
SendWriteData ==
    /\ send.pc = "write_data"
    /\ conns' = [conns EXCEPT ![send.conn].written = @ \o send.data,
                              ![send.conn].writes = @ + 1]
    /\ send' = [send EXCEPT !.pc = "write_newline"]
    /\ UNCHANGED <<now, peers, peer_timeout, app_vars, listen_pc, dgram, peer, last, upserted,
                   removal_done, malformed_seen, guards, sent, inbox, rx_open, run_vars>>

\* write_all(b"\n") completes.
SendWriteNewline ==
    /\ send.pc = "write_newline"
    /\ conns' = [conns EXCEPT ![send.conn].written = @ \o <<LF>>,
                              ![send.conn].writes = @ + 1]
    /\ send' = [send EXCEPT !.pc = "flush"]
    /\ UNCHANGED <<now, peers, peer_timeout, app_vars, listen_pc, dgram, peer, last, upserted,
                   removal_done, malformed_seen, guards, sent, inbox, rx_open, run_vars>>

\* flush completes: the Sent event, Ok(()), and the stream is dropped.
SendFlush ==
    /\ send.pc = "flush"
    /\ conns' = [conns EXCEPT ![send.conn].open = FALSE, ![send.conn].ok = TRUE]
    /\ send' = Returned(send.to, send.content, Ok)
    /\ sent' = sent \o events_on_return(Ok, send.to, send.content)
    /\ guards' = guards \ {"send"}
    /\ UNCHANGED <<now, peers, peer_timeout, app_vars, listen_pc, dgram, peer, last, upserted,
                   removal_done, malformed_seen, inbox, rx_open, run_vars>>

\* a write_all or the flush fails: `?` returns the error, the stream is dropped.
SendWriteErr ==
    /\ send.pc \in {"write_data", "write_newline", "flush"}
    /\ conns' = [conns EXCEPT ![send.conn].open = FALSE]
    /\ send' = Returned(send.to, send.content, Network(send.pc))
    /\ sent' = sent \o events_on_return(Network(send.pc), send.to, send.content)
    /\ guards' = guards \ {"send"}
    /\ UNCHANGED <<now, peers, peer_timeout, app_vars, listen_pc, dgram, peer, last, upserted,
                   removal_done, malformed_seen, inbox, rx_open, run_vars>>

\* ------------------------------------- messaging: the listener of a peer
\* One iteration of the accept loop: the oldest established connection is
\* accepted and its handler spawned.
Accept ==
    /\ accept_ready(conns)
    /\ \E c \in ConnIds :
         /\ conns[c].client # "none" /\ conns[c].handler = "none"
         /\ \A d \in ConnIds :
                conns[d].client # "none" /\ conns[d].handler = "none" => c <= d
         /\ conns' = [conns EXCEPT ![c].handler = "reading"]
    /\ UNCHANGED <<now, peers, peer_timeout, app_vars, listen_pc, dgram, peer, last, upserted,
                   removal_done, malformed_seen, guards, send, sent, inbox, rx_open,
                   run_vars>>

\* One iteration of a handler's loop: next_line gives a line, which is decoded
\* and, when valid, sent on the event channel (a closed channel ends the
\* handler), or gives None, which ends the handler.
HandlerRead(c) ==
    /\ conns[c].handler = "reading"
    /\ \E r \in {next_line(unread(conns[c]), ~conns[c].open)} :
       \E decoded \in {IF r.kind = "line" THEN from_str(r.line) ELSE DecodeErr} :
           /\ r.kind # "pending"
           /\ IF r.kind = "none"
              THEN /\ conns' = [conns EXCEPT ![c].handler = after_end_of_stream]
                   /\ inbox' = inbox
              ELSE IF ~decoded.ok
              THEN /\ conns' = [conns EXCEPT ![c].nread = @ + r.used,
                                             ![c].handler = after_invalid_line]
                   /\ inbox' = inbox
              ELSE IF rx_open
              THEN /\ conns' = [conns EXCEPT ![c].nread = @ + r.used]
                   /\ inbox' = [inbox EXCEPT ![c] = Append(@, Received(decoded.msg))]
              ELSE /\ conns' = [conns EXCEPT ![c].nread = @ + r.used,
                                             ![c].handler = after_send_error]
                   /\ inbox' = inbox
    /\ UNCHANGED <<now, peers, peer_timeout, app_vars, listen_pc, dgram, peer, last, upserted,
                   removal_done, malformed_seen, guards, send, sent, rx_open, run_vars>>

\* next_line gives Err (the connection is reset, the bytes are not UTF-8):
\* the loop ends.
HandlerReadError(c) ==
    /\ conns[c].handler = "reading"
    /\ conns' = [conns EXCEPT ![c].handler = after_end_of_stream]
    /\ UNCHANGED <<now, peers, peer_timeout, app_vars, listen_pc, dgram, peer, last, upserted,
                   removal_done, malformed_seen, guards, send, sent, inbox, rx_open,
                   run_vars>>

\* The receiving half of the listener's event channel is dropped.
ReceiverDropped ==
    /\ rx_open
    /\ rx_open' = FALSE
    /\ UNCHANGED <<now, peers, peer_timeout, app_vars, listen_pc, dgram, peer, last, upserted,
                   removal_done, malformed_seen, guards, send, conns, sent, inbox,
                   run_vars>>

\* -------------------------- messaging: the directory under a send_message
\* The peers the discovery tasks upsert while the messaging service runs: one
\* nickname at both addresses, another at the listener's.
MsgPeers ==
    {PeerNew(n, a, now) : n \in OtherNicknames, a \in MsgAddrs} \
        {PeerNew("Alice", a, now) : a \in MsgAddrs \ {ListenerAddr}}

\* The listen task's registry.upsert(peer): needs the write lock.
PeerAnnounced(p) ==
    /\ can_write(guards)
    /\ peers' = upsert(peers, p, now)
    /\ UNCHANGED <<now, peer_timeout, app_vars, listen_pc, dgram, peer, last, upserted,
                   removal_done, malformed_seen, run_vars, msg_vars>>

\* The cleanup task's remove_timed_out(peer_timeout): needs the write lock.
Sweep ==
    /\ can_write(guards)
    /\ peers' = remove_timed_out(peers, peer_timeout, now)
    /\ UNCHANGED <<now, peer_timeout, app_vars, listen_pc, dgram, peer, last, upserted,
                   removal_done, malformed_seen, run_vars, msg_vars>>

\* the contents of the calls whose directory changes under them
SendContents == {<<>>, <<"h", "i">>}

NextSend ==
    \/ \E p \in MsgPeers : PeerAnnounced(p)
    \/ Sweep
    \/ \E to \in SendTargets, content \in SendContents : SendCall(to, content)
    \/ SendConnectOk
    \/ SendConnectErr
    \/ SendWriteData
    \/ SendWriteNewline
    \/ SendFlush
    \/ SendWriteErr

InitSend == Init /\ peer_timeout = 0

\* A node calling send_message while its discovery tasks feed and sweep the
\* directory, within one reading of the clock; the host at ListenerAddr takes
\* connections and its listener reads nothing yet.
SpecSend == InitSend /\ [][NextSend]_vars

NextSnapshot ==
    \/ Tick
    \/ \E a \in MsgAddrs : PeerAnnounced(PeerNew("Bob", a, now))
    \/ Sweep
    \/ SendCall("Bob", <<"h", "i">>)
    \/ SendConnectOk
    \/ SendConnectErr
    \/ SendWriteData
    \/ SendWriteNewline
    \/ SendFlush
    \/ SendWriteErr

\* Sends to "Bob", announced from two hosts, while the clock advances, so
\* that the sweep removes the records that have not been refreshed.
SpecSnapshot == InitSend /\ [][NextSnapshot]_vars

\* the peer that listens at ListenerAddr, as announced
ListenerPeer == PeerNew("Bob", ListenerAddr, now)

NextMessaging ==
    \/ PeerAnnounced(ListenerPeer)
    \/ \E content \in Contents : SendCall("Bob", content)
    \/ SendConnectOk
    \/ SendConnectErr
    \/ SendWriteData
    \/ SendWriteNewline
    \/ SendFlush
    \/ SendWriteErr
    \/ Accept
    \/ \E c \in ConnIds : HandlerRead(c)
    \/ \E c \in ConnIds : HandlerReadError(c)

\* A node sending to the peer at ListenerAddr, and that peer's messaging
\* service: its accept loop, its connection handlers and its event channel,
\* whose receiver stays alive.
SpecMessaging == InitSend /\ [][NextMessaging]_vars

\* ------------------------------- messaging: the listener and its clients
\* What a TCP client writes in one write: a message line, a line that is not
\* a message and ends in "\r\n", a message without its newline.
MaxWrites == 2
RawMessage == TextMessageNew(Text("Alice"), <<"h", "i">>, 0)
RawChunks ==
    { to_string(RawMessage) \o <<LF>>,
      <<"{", "}", CR, LF>>,
      to_string(RawMessage) }

\* the writes the clients have made so far, MaxWrites at most
RECURSIVE raw_writes_upto(_, _)
raw_writes_upto(C, n) ==
    IF n = 0 THEN 0
    ELSE raw_writes_upto(C, n - 1) + (IF C[n].client = "raw" THEN C[n].writes ELSE 0)
raw_writes(C) == raw_writes_upto(C, Len(C))

\* A client connects to the listener.
RawConnect ==
    /\ \E c \in ConnIds :
         /\ conns[c].client = "none"
         /\ \A d \in ConnIds : conns[d].client = "none" => c <= d
         /\ conns' = [conns EXCEPT ![c] = [NoConn EXCEPT !.client = "raw",
                                                          !.open = TRUE]]
    /\ UNCHANGED <<now, peers, peer_timeout, app_vars, listen_pc, dgram, peer, last, upserted,
                   removal_done, malformed_seen, guards, send, sent, inbox, rx_open,
                   run_vars>>

\* It writes.
RawWrite(c, chunk) ==
    /\ conns[c].client = "raw" /\ conns[c].open
    /\ raw_writes(conns) < MaxWrites
    /\ conns' = [conns EXCEPT ![c].written = @ \o chunk, ![c].writes = @ + 1]
    /\ UNCHANGED <<now, peers, peer_timeout, app_vars, listen_pc, dgram, peer, last, upserted,
                   removal_done, malformed_seen, guards, send, sent, inbox, rx_open,
                   run_vars>>

\* It closes its end.
RawClose(c) ==
    /\ conns[c].client = "raw" /\ conns[c].open
    /\ conns' = [conns EXCEPT ![c].open = FALSE]
    /\ UNCHANGED <<now, peers, peer_timeout, app_vars, listen_pc, dgram, peer, last, upserted,
                   removal_done, malformed_seen, guards, send, sent, inbox, rx_open,
                   run_vars>>

NextInbound ==
    \/ RawConnect
    \/ \E c \in ConnIds, chunk \in RawChunks : RawWrite(c, chunk)
    \/ \E c \in ConnIds : RawClose(c)
    \/ Accept
    \/ \E c \in ConnIds : HandlerRead(c)
    \/ \E c \in ConnIds : HandlerReadError(c)
    \/ ReceiverDropped

\* The messaging service of a node and the TCP clients that connect to it.
SpecInbound == InitSend /\ [][NextInbound]_vars

\* ------------------------------------------ messaging: the event handler
\* event_rx.recv() of an unbounded mpsc channel: of the events q a sender has
\* put on it, n of them taken already, the next one taken is the oldest left
recv_latest(q, n) == q[Len(q)]
recv(q, n) == q[n + 1]

\* The event task of spawn_event_handler takes the next event of connection
\* c's handler from the channel and shows it.
EventRecv(c) ==
    /\ rx_open
    /\ Len(app.shown[c]) < Len(inbox[c])
    /\ app' = [app EXCEPT !.shown[c] = Append(@, recv(inbox[c], Len(@)))]
    /\ UNCHANGED <<now, peers, peer_timeout, listen_pc, dgram, peer, last, upserted,
                   removal_done, malformed_seen, run_vars, msg_vars, reg, call>>

\* a second message, and what the clients write here: one message line, the
\* other, a line that is not a message
SecondMessage == TextMessageNew(Text("Alice"), <<"y", "o">>, 1)
OrderChunks ==
    { to_string(RawMessage) \o <<LF>>,
      to_string(SecondMessage) \o <<LF>>,
      <<"{", "}", CR, LF>> }

NextOrder ==
    \/ RawConnect
    \/ \E c \in ConnIds, chunk \in OrderChunks : RawWrite(c, chunk)
    \/ Accept
    \/ \E c \in ConnIds : HandlerRead(c)
    \/ \E c \in ConnIds : EventRecv(c)

\* The messaging service, clients that write different messages, and the
\* event task that takes the events from the channel.
SpecOrder == InitSend /\ [][NextOrder]_vars

\* The same with every spawned handler scheduled: a handler whose next_line
\* is ready runs its iteration.
LiveInbound == SpecInbound /\ \A c \in ConnIds : WF_vars(HandlerRead(c))

\* ---------------------------------------------------------------- App::run

\* MessagingService::new(config, event_tx).await? with config.tcp_port as
\* requested: the listener is bound to `port`, or the constructor fails.
AppNewMessaging(requested, outcome, port) ==
    /\ app.pc = "new_messaging"
    /\ port \in bound_ports(requested)
    /\ app' = [app EXCEPT !.requested = requested,
                          !.listener = IF outcome = "ok" THEN port ELSE 0,
                          !.result = IF outcome = "ok" THEN NoResult
                                     ELSE messaging_new(outcome),
                          !.pc = try(messaging_new(outcome), "local_addr")]
    /\ UNCHANGED <<now, peers, peer_timeout, listen_pc, dgram, peer, last, upserted,
                   removal_done, malformed_seen, run_vars, msg_vars, reg, call>>

\* messaging_service.local_addr()?.port()
AppLocalAddr(outcome) ==
    /\ app.pc = "local_addr"
    /\ app' = [app EXCEPT !.actual_tcp_port = IF outcome = "ok" THEN app.listener ELSE 0,
                          !.listener = IF outcome = "ok" THEN @ ELSE 0,
                          !.result = IF outcome = "ok" THEN NoResult ELSE Network(outcome),
                          !.pc = try(IF outcome = "ok" THEN Ok ELSE Network(outcome),
                                     "new_discovery")]
    /\ UNCHANGED <<now, peers, peer_timeout, listen_pc, dgram, peer, last, upserted,
                   removal_done, malformed_seen, run_vars, msg_vars, reg, call>>

\* DiscoveryService::new(discovery_config).await?
AppNewDiscovery(outcome) ==
    /\ app.pc = "new_discovery"
    /\ app' = [app EXCEPT
                 !.discovery =
                    IF outcome = "ok"
                    THEN <<[nickname |-> LocalNickname,
                            tcp_port |-> discovery_tcp_port(app.requested,
                                                            app.actual_tcp_port)]>>
                    ELSE <<>>,
                 !.listener = IF outcome = "ok" THEN @ ELSE 0,
                 !.result = IF outcome = "ok" THEN NoResult ELSE discovery_new(outcome),
                 !.pc = try(discovery_new(outcome), "spawn")]
    /\ UNCHANGED <<now, peers, peer_timeout, listen_pc, dgram, peer, last, upserted,
                   removal_done, malformed_seen, run_vars, msg_vars, reg, call>>

\* The four tokio::spawn calls; App::run is then at its select!.
AppSpawn ==
    /\ app.pc = "spawn"
    /\ app' = [app EXCEPT !.task = [t \in AppTasks |-> "running"], !.pc = "select"]
    /\ UNCHANGED <<now, peers, peer_timeout, listen_pc, dgram, peer, last, upserted,
                   removal_done, malformed_seen, run_vars, msg_vars, reg, call>>

\* discovery_task is polled for the first time: DiscoveryService::run spawns
\* its announce, listen and cleanup tasks and waits at its select!.
DiscoveryRunStart ==
    /\ app.runtime = "up"
    /\ app.task["discovery"] = "running"
    /\ ~app.run_started
    /\ app' = [app EXCEPT !.run_started = TRUE]
    /\ UNCHANGED <<now, peers, peer_timeout, listen_pc, dgram, peer, last, upserted,
                   removal_done, malformed_seen, run_vars, msg_vars, reg, call>>

\* a task spawned by DiscoveryService::run is there to take a step
inner(t) == app.runtime = "up" /\ app.run_started /\ tasks[t] = "running"

\* The announce task: the interval fires, the Announce is serialized and
\* sent to the group (a failed send_to is logged).
AnnounceSend(outcome) ==
    /\ inner("announce")
    /\ app.discovery # <<>>
    /\ Len(app.announced) < MaxAnnounces
    /\ app' = [app EXCEPT !.announced =
                 IF outcome = "ok"
                 THEN Append(@, to_vec(Announce(app.discovery[1].nickname,
                                                app.discovery[1].tcp_port)))
                 ELSE @]
    /\ UNCHANGED <<now, peers, peer_timeout, listen_pc, dgram, peer, last, upserted,
                   removal_done, malformed_seen, run_vars, msg_vars, reg, call>>

\* The input task's loop ends: /quit, end of input or a read error.
InputEnds ==
    /\ app.runtime = "up"
    /\ app.task["input"] = "running"
    /\ app' = [app EXCEPT !.task["input"] = "done"]
    /\ UNCHANGED <<now, peers, peer_timeout, listen_pc, dgram, peer, last, upserted,
                   removal_done, malformed_seen, run_vars, msg_vars, reg, call>>

\* The select! of App::run completes: Ctrl+C, or the input task has ended.
AppSelect(arm) ==
    /\ app.pc = "select"
    /\ arm = "input_task" => app.task["input"] = "done"
    /\ app' = [app EXCEPT !.pc = "shutdown"]
    /\ UNCHANGED <<now, peers, peer_timeout, listen_pc, dgram, peer, last, upserted,
                   removal_done, malformed_seen, run_vars, msg_vars, reg, call>>

\* discovery_task.abort(); messaging_task.abort(); event_task.abort(); Ok(())
AppShutdown ==
    /\ app.pc = "shutdown"
    /\ app' = [app EXCEPT !.task["discovery"] = abort(@),
                          !.task["messaging"] = abort(@),
                          !.task["event"] = abort(@),
                          !.announced = @ \o shutdown_datagrams,
                          !.result = Ok,
                          !.pc = "returned"]
    /\ UNCHANGED <<now, peers, peer_timeout, listen_pc, dgram, peer, last, upserted,
                   removal_done, malformed_seen, run_vars, msg_vars, reg, call>>

\* The cancelled event task's future is dropped, and the receiver with it.
EventTaskCancelled ==
    /\ app.runtime = "up"
    /\ app.task["event"] = "aborted"
    /\ rx_open
    /\ rx_open' = FALSE
    /\ UNCHANGED <<now, peers, peer_timeout, listen_pc, dgram, peer, last, upserted,
                   removal_done, malformed_seen, run_vars, guards, send, conns, sent,
                   inbox, app_vars>>

\* main returns what App::run returned and the runtime is dropped: every task
\* still there is cancelled.
RuntimeShutdown ==
    /\ app.pc = "returned"
    /\ app.runtime = "up"
    /\ app' = [app EXCEPT !.runtime = "down"]
    /\ UNCHANGED <<now, peers, peer_timeout, listen_pc, dgram, peer, last, upserted,
                   removal_done, malformed_seen, run_vars, msg_vars, reg, call>>

\* the line a client of the application's listener writes, and the datagram
\* its listen task receives: another node's Announce
AppChunks == {to_string(RawMessage) \o <<LF>>}
AppDatagrams == {dg \in RunDatagrams : dg.data.nickname = "Alice"}

NextApp ==
    \/ \E requested \in RequestedPorts, outcome \in MessagingNewOutcomes, port \in Ports :
            AppNewMessaging(requested, outcome, port)
    \/ \E outcome \in {"ok", "local_addr"} : AppLocalAddr(outcome)
    \/ \E outcome \in DiscoveryNewOutcomes : AppNewDiscovery(outcome)
    \/ AppSpawn
    \/ DiscoveryRunStart
    \/ \E outcome \in {"ok", "send_to"} : AnnounceSend(outcome)
    \/ inner("listen") /\ \E dg \in AppDatagrams : ListenRecv(dg)
    \/ inner("listen") /\ ListenUpsert
    \/ inner("cleanup") /\ Cleanup
    \/ app.listener # 0 /\ app.runtime = "up" /\ RawConnect
    \/ app.runtime = "up" /\ \E c \in ConnIds, chunk \in AppChunks : RawWrite(c, chunk)
    \/ app.task["messaging"] = "running" /\ app.runtime = "up" /\ Accept
    \/ app.runtime = "up" /\ \E c \in ConnIds : HandlerRead(c)
    \/ InputEnds
    \/ \E arm \in {"ctrl_c", "input_task"} : AppSelect(arm)
    \/ AppShutdown
    \/ EventTaskCancelled
    \/ RuntimeShutdown

\* The application from App::run's first line to the end of the process.
SpecApp == InitSend /\ [][NextApp]_vars


\* ------------------------------------- the registry under concurrent callers
\* Caller t builds a Peer and calls upsert, which waits for the write guard.
UpsertStart(t, addr) ==
    /\ reg.call[t].pc = "idle"
    /\ reg' = [reg EXCEPT !.call[t] =
                 [pc |-> "write", p |-> <<PeerNew(caller_nickname(t), addr, now)>>],
                          !.done = NoDone]
    /\ UNCHANGED <<now, peers, peer_timeout, listen_pc, dgram, peer, last, upserted,
                   removal_done, malformed_seen, run_vars, msg_vars, app, call>>

\* The write guard is granted and the first statement runs: the refresh of
\* the record found, or the insert, after which upsert returns.
UpsertLock(t) ==
    /\ reg.call[t].pc = "write"
    /\ can_write(guards)
    /\ LET p == reg.call[t].p[1]
           raced == \E u \in Callers \ {t} :
                        reg.call[u].pc # "idle" /\ reg.call[u].p[1].id = p.id
       IN  IF p.id \in DOMAIN peers
           THEN /\ peers' = existing_refresh(peers, p.id, now)
                /\ guards' = guards \cup {t}
                /\ reg' = [reg EXCEPT !.call[t].pc = "refreshed",
                                      !.done = NoDone,
                                      !.winner = insert(@, [id |-> p.id, nickname |-> p.nickname]),
                                      !.raced = @ \/ raced]
           ELSE /\ peers' = insert(peers, p)
                /\ guards' = guards
                /\ reg' = [reg EXCEPT !.call[t] = IdleCall,
                                      !.done = Done("upsert", <<p.id>>, {}, 0),
                                      !.committed = insert(peers, p),
                                      !.winner = insert(@, [id |-> p.id, nickname |-> p.nickname]),
                                      !.raced = @ \/ raced]
    /\ UNCHANGED <<now, peer_timeout, listen_pc, dgram, peer, last, upserted,
                   removal_done, malformed_seen, run_vars, send, conns, sent, inbox,
                   rx_open, app, call>>

\* existing.nickname = peer.nickname
UpsertNickname(t) ==
    /\ reg.call[t].pc = "refreshed"
    /\ peers' = existing_nickname(peers, reg.call[t].p[1].id, reg.call[t].p[1].nickname)
    /\ reg' = [reg EXCEPT !.call[t].pc = "nicknamed", !.done = NoDone]
    /\ UNCHANGED <<now, peer_timeout, listen_pc, dgram, peer, last, upserted,
                   removal_done, malformed_seen, run_vars, msg_vars, app, call>>

\* existing.addr = peer.addr; the guard is dropped and upsert returns.
UpsertAddr(t) ==
    /\ reg.call[t].pc = "nicknamed"
    /\ peers' = existing_addr(peers, reg.call[t].p[1].id, reg.call[t].p[1].addr)
    /\ guards' = release(guards, t)
    /\ reg' = [reg EXCEPT !.call[t] = IdleCall,
                          !.done = Done("upsert", <<reg.call[t].p[1].id>>, {}, 0),
                          !.committed = peers']
    /\ UNCHANGED <<now, peer_timeout, listen_pc, dgram, peer, last, upserted,
                   removal_done, malformed_seen, run_vars, send, conns, sent, inbox,
                   rx_open, app, call>>

\* remove(id), from its write().await to its return.
RegRemove(id) ==
    /\ can_write(guards)
    /\ peers' = remove(peers, id)
    /\ reg' = [reg EXCEPT !.done = Done("remove", <<id>>,
                                        {r \in get_all(peers) : r.id = id}, 0),
                          !.wait = @ \ {"remove"},
                          !.committed = remove(peers, id)]
    /\ UNCHANGED <<now, peer_timeout, listen_pc, dgram, peer, last, upserted,
                   removal_done, malformed_seen, run_vars, msg_vars, app, call>>

\* remove_timed_out(timeout), from its write().await to its return.
RegRemoveTimedOut(timeout) ==
    /\ can_write(guards)
    /\ peers' = remove_timed_out(peers, timeout, now)
    /\ reg' = [reg EXCEPT !.done = Done("remove_timed_out", <<>>,
                                        removed_peers(peers, timeout, now), 0),
                          !.wait = @ \ {"remove_timed_out"},
                          !.committed = remove_timed_out(peers, timeout, now)]
    /\ UNCHANGED <<now, peer_timeout, listen_pc, dgram, peer, last, upserted,
                   removal_done, malformed_seen, run_vars, msg_vars, app, call>>

\* get(id), get_all() and count(), each from its read().await to its return.
RegGet(id) ==
    /\ can_read(guards)
    /\ reg' = [reg EXCEPT !.done = Done("get", <<id>>, {r \in get_all(peers) : <<r>> = get(peers, id)}, 0),
                          !.wait = @ \ {"get"}]
    /\ UNCHANGED <<now, peers, peer_timeout, listen_pc, dgram, peer, last, upserted,
                   removal_done, malformed_seen, run_vars, msg_vars, app, call>>

RegGetAll ==
    /\ can_read(guards)
    /\ reg' = [reg EXCEPT !.done = Done("get_all", <<>>, get_all(peers), 0),
                          !.wait = @ \ {"get_all"}]
    /\ UNCHANGED <<now, peers, peer_timeout, listen_pc, dgram, peer, last, upserted,
                   removal_done, malformed_seen, run_vars, msg_vars, app, call>>

RegCount ==
    /\ can_read(guards)
    /\ reg' = [reg EXCEPT !.done = Done("count", <<>>, {}, count(peers)),
                          !.wait = @ \ {"count"}]
    /\ UNCHANGED <<now, peers, peer_timeout, listen_pc, dgram, peer, last, upserted,
                   removal_done, malformed_seen, run_vars, msg_vars, app, call>>

NextCallers ==
    \/ Tick
    \/ \E t \in Callers : \E addr \in caller_addrs(t) : UpsertStart(t, addr)
    \/ \E t \in Callers : UpsertLock(t)
    \/ \E t \in Callers : UpsertNickname(t)
    \/ \E t \in Callers : UpsertAddr(t)
    \/ \E addr \in MsgAddrs : RegRemove(from_addr(addr))
    \/ \E timeout \in Timeouts : RegRemoveTimedOut(timeout)
    \/ \E addr \in MsgAddrs : RegGet(from_addr(addr))
    \/ RegGetAll
    \/ RegCount

\* Tasks calling the registry's methods at the same time, the lock deciding
\* the order.
SpecCallers == InitRegistry /\ [][NextCallers]_vars

\* ------------------------------------------ the registry's lock, call by call
\* The methods that take the lock for one statement, and such a call from its
\* first line to its read().await or write().await: the task is now queued on
\* the lock.
OneShot == {"remove", "remove_timed_out", "get_all", "get", "count"}
waiting(op) == op \in reg.wait
CallStart(op) ==
    /\ ~waiting(op)
    /\ reg' = [reg EXCEPT !.wait = @ \cup {op}, !.done = NoDone]
    /\ UNCHANGED <<now, peers, peer_timeout, listen_pc, dgram, peer, last, upserted,
                   removal_done, malformed_seen, run_vars, msg_vars, app, call>>

\* The listen loop's upserts (two of them in flight), the cleanup loop's
\* sweep, the get_all of send_message and of /peers, and the other methods,
\* every one a call that starts, queues on the lock and returns.
NextLock ==
    \/ \E t \in Callers : \E addr \in caller_addrs(t) : UpsertStart(t, addr)
    \/ \E t \in Callers : UpsertLock(t)
    \/ \E t \in Callers : UpsertNickname(t)
    \/ \E t \in Callers : UpsertAddr(t)
    \/ \E op \in OneShot : CallStart(op)
    \/ waiting("remove") /\ RegRemove(from_addr(ListenerAddr))
    \/ waiting("remove_timed_out") /\ RegRemoveTimedOut(0)
    \/ waiting("get") /\ RegGet(from_addr(ListenerAddr))
    \/ waiting("get_all") /\ RegGetAll
    \/ waiting("count") /\ RegCount

\* The lock is fair (tokio's RwLock queues its waiters first in, first out),
\* so a waiter is granted the lock if it is free again and again; a task
\* holding the guard awaits nothing and is run to its return.
LiveLock ==
    /\ InitRegistry /\ [][NextLock]_vars
    /\ \A t \in Callers :
          SF_vars(UpsertLock(t)) /\ WF_vars(UpsertNickname(t)) /\ WF_vars(UpsertAddr(t))
    /\ SF_vars(waiting("remove") /\ RegRemove(from_addr(ListenerAddr)))
    /\ SF_vars(waiting("remove_timed_out") /\ RegRemoveTimedOut(0))
    /\ SF_vars(waiting("get") /\ RegGet(from_addr(ListenerAddr)))
    /\ SF_vars(waiting("get_all") /\ RegGetAll)
    /\ SF_vars(waiting("count") /\ RegCount)

\* ------------------------------------------------- App: the input handler
\* The loop of spawn_input_handler is at lines.next_line() when no
\* send_message is in flight: it awaits the call inside the match arm.
input_ready_spawned(snd) == TRUE
input_ready(snd) == snd.pc = "idle"

\* the input task is there to take a step
input_running == app.runtime = "up" /\ app.task["input"] = "running"

\* "/send to content" is read: send_message is called and awaited.
InputSend(to, content) ==
    /\ input_running
    /\ input_ready(send)
    /\ SendCall(to, content)

\* "/peers" is read: handle_peers_command lists registry.get_all().
InputPeers ==
    /\ input_running
    /\ input_ready(send)
    /\ RegGetAll

\* "/quit" is read (or the input ends): the loop is left.
InputQuit ==
    /\ input_ready(send)
    /\ InputEnds

NextInput ==
    \/ AppNewMessaging(9000, "ok", 9000)
    \/ AppLocalAddr("ok")
    \/ AppNewDiscovery("ok")
    \/ AppSpawn
    \/ app.runtime = "up" /\ PeerAnnounced(ListenerPeer)
    \/ InputSend("Bob", <<"h", "i">>)
    \/ InputPeers
    \/ InputQuit
    \/ input_running /\ SendConnectOk
    \/ input_running /\ SendConnectErr
    \/ input_running /\ SendWriteData
    \/ input_running /\ SendWriteNewline
    \/ input_running /\ SendFlush
    \/ input_running /\ SendWriteErr
    \/ \E arm \in {"ctrl_c", "input_task"} : AppSelect(arm)
    \/ AppShutdown
    \/ RuntimeShutdown

\* The application with a user typing /send, /peers and /quit, and a peer
\* whose connect may stay pending.
SpecInput == InitSend /\ [][NextInput]_vars

\* ------------------------------------------------- the codecs and the parser
\* serde_json::to_vec(&msg), then serde_json::from_slice of the bytes.
DiscoveryRoundTrip(msg) ==
    /\ call' = Applied("discovery_roundtrip", msg,
                       [wire |-> to_vec(msg), decoded |-> from_slice(to_vec(msg))])
    /\ UNCHANGED <<now, peers, peer_timeout, listen_pc, dgram, peer, last, upserted,
                   removal_done, malformed_seen, run_vars, msg_vars, app, reg>>

\* serde_json::from_slice of a datagram's bytes.
DiscoveryDecode(body) ==
    /\ call' = Applied("from_slice", body, from_slice(body))
    /\ UNCHANGED <<now, peers, peer_timeout, listen_pc, dgram, peer, last, upserted,
                   removal_done, malformed_seen, run_vars, msg_vars, app, reg>>

\* serde_json::to_string(&msg), then from_str of the text.
TextRoundTrip(msg) ==
    /\ call' = Applied("text_roundtrip", msg,
                       [wire |-> to_string(msg), decoded |-> from_str(to_string(msg))])
    /\ UNCHANGED <<now, peers, peer_timeout, listen_pc, dgram, peer, last, upserted,
                   removal_done, malformed_seen, run_vars, msg_vars, app, reg>>

\* Command::parse of "/send n m".
ParseSend(n, m) ==
    /\ call' = Applied("parse_send", [n |-> n, m |-> m], parse(send_line(n, m)))
    /\ UNCHANGED <<now, peers, peer_timeout, listen_pc, dgram, peer, last, upserted,
                   removal_done, malformed_seen, run_vars, msg_vars, app, reg>>

\* Command::parse of a line.
Parse(input) ==
    /\ call' = Applied("parse", input, parse(input))
    /\ UNCHANGED <<now, peers, peer_timeout, listen_pc, dgram, peer, last, upserted,
                   removal_done, malformed_seen, run_vars, msg_vars, app, reg>>

\* NicknameValidator::validate of a nickname.
Validate(nickname) ==
    /\ call' = Applied("validate", nickname, validate(nickname))
    /\ UNCHANGED <<now, peers, peer_timeout, listen_pc, dgram, peer, last, upserted,
                   removal_done, malformed_seen, run_vars, msg_vars, app, reg>>

NextPure ==
    \/ \E msg \in DiscoveryMessages : DiscoveryRoundTrip(msg)
    \/ \E body \in Bodies : DiscoveryDecode(body)
    \/ \E msg \in TextMessages : TextRoundTrip(msg)
    \/ \E n \in ParseNicknames, m \in ParseMessages : ParseSend(n, m)
    \/ \E input \in ParseInputs : Parse(input)
    \/ \E nickname \in ValidateInputs : Validate(nickname)

\* The wire codecs and the command parser applied to the inputs above.
SpecPure == InitRegistry /\ [][NextPure]_vars

\* ================================================================ claims

\* C1 (Spec): self-suppression.  No entry of the directory, and no Peer the
\* listen task is about to upsert, carries the local nickname; and the step
\* that receives an Announce of the local nickname, from whatever source and
\* with whatever port, changes neither the directory nor the pending Peer and
\* returns to recv_from.
C1_SelfSuppression ==
    /\ [](/\ \A p \in get_all(peers) : p.nickname # LocalNickname
          /\ peer # <<>> => peer[1].nickname # LocalNickname)
    /\ [][last'.op = "recv_self" =>
            /\ last'.nickname = LocalNickname
            /\ peers' = peers
            /\ peer' = peer
            /\ listen_pc' = "recv"]_vars

\* C1 witness: an Announce of the local nickname has just been received while
\* the directory holds other peers.
C1_Witness == last.op = "recv_self" /\ count(peers) = 2

\* C2 (SpecRegistry): identity collapse.  While nothing has been removed, the
\* directory has as many entries as distinct addresses have been upserted, and
\* exactly one entry, keyed by from_addr of the address, for each of them.
C2_IdentityCollapse ==
    ~removal_done =>
        /\ count(peers) = Cardinality(upserted)
        /\ \A a \in upserted :
              Cardinality({p \in get_all(peers) : p.addr = a}) = 1

\* C2 witness: two distinct addresses upserted, one of them a second time, and
\* two entries.
C2_Witness ==
    /\ ~removal_done
    /\ Cardinality(upserted) = 2
    /\ count(peers) = 2
    /\ last.op = "upsert" /\ last.existed

\* C3 (SpecRegistry): upsert(r) on an existing id sets that entry's last_seen
\* to the time of the call and its nickname and address to r's, the set of
\* ids unchanged; on a new id it inserts r itself and the count grows by one;
\* every entry under another id is left as it was.
C3_UpsertContract ==
    [][(last'.op = "upsert" /\ now' = now) =>
        LET r == last'.peer[1] IN
        /\ last'.existed = (r.id \in DOMAIN peers)
        /\ IF r.id \in DOMAIN peers
           THEN /\ DOMAIN peers' = DOMAIN peers
                /\ count(peers') = count(peers)
                /\ peers'[r.id] = [id |-> peers[r.id].id, nickname |-> r.nickname,
                                   addr |-> r.addr, last_seen |-> now]
           ELSE /\ DOMAIN peers' = DOMAIN peers \cup {r.id}
                /\ count(peers') = count(peers) + 1
                /\ peers'[r.id] = r
        /\ \A i \in DOMAIN peers \ {r.id} : peers'[i] = peers[i]]_vars

\* C3 witness: an upsert has hit an existing entry while another entry is
\* present, and the entry's last_seen is later than the one the record carried.
C3_Witness ==
    /\ last.op = "upsert" /\ last.existed
    /\ count(peers) = 2
    /\ peers[last.peer[1].id].last_seen > last.peer[1].last_seen
    /\ peers[last.peer[1].id].nickname = last.peer[1].nickname

\* C4 as claimed (SpecRegistry): upsert is idempotent, last_seen included:
\* a call of upsert(r) that follows a call of upsert(r) leaves the directory
\* as the first call left it.
C4_IdempotentAsClaimed ==
    [][(last.op = "upsert" /\ last'.op = "upsert" /\ last'.peer = last.peer) =>
        peers' = peers]_vars

\* C4 (SpecRegistry): a call of upsert(r) that follows a call of upsert(r)
\* leaves the same set of entries, each with the id, nickname and address it
\* had, and the last_seen it had except for r's entry, whose last_seen becomes
\* the time of the second call.
C4_IdempotentUpToLastSeen ==
    [][(last.op = "upsert" /\ last'.op = "upsert" /\ last'.peer = last.peer
            /\ now' = now /\ last'.again) =>
        LET r == last'.peer[1] IN
        /\ DOMAIN peers' = DOMAIN peers
        /\ \A i \in DOMAIN peers :
              /\ peers'[i].id = peers[i].id
              /\ peers'[i].nickname = peers[i].nickname
              /\ peers'[i].addr = peers[i].addr
              /\ i # r.id => peers'[i].last_seen = peers[i].last_seen
        /\ peers'[r.id].last_seen = now
        /\ peers'[r.id].last_seen >= peers[r.id].last_seen]_vars

\* C4 witness: the same record has been upserted twice in succession, and the
\* second call moved the entry's last_seen past the one the record carries.
C4_Witness ==
    /\ last.op = "upsert" /\ last.again
    /\ peers[last.peer[1].id].last_seen > last.peer[1].last_seen

\* C5 (SpecRegistry): remove_timed_out(timeout) at clock reading now removes
\* exactly the entries with now - last_seen > timeout, returns exactly those
\* records and leaves the other entries as they were; and an id that is absent
\* comes back only by an upsert of that id.
C5_SweepContract ==
    /\ [][(last'.op = "remove_timed_out" /\ now' = now) =>
            LET gone == {i \in DOMAIN peers : now - peers[i].last_seen > last'.timeout} IN
            /\ DOMAIN peers' = DOMAIN peers \ gone
            /\ last'.removed = {peers[i] : i \in gone}
            /\ \A i \in DOMAIN peers' : peers'[i] = peers[i]
            /\ get_all(peers') = get_all(peers) \ last'.removed]_vars
    /\ [][\A i \in DOMAIN peers' \ DOMAIN peers :
            last'.op = "upsert" /\ last'.peer[1].id = i]_vars

\* C5 witness: a sweep has removed a record and left another one.
C5_Witness ==
    /\ last.op = "remove_timed_out"
    /\ last.removed # {}
    /\ count(peers) >= 1

\* C6 as claimed (SpecRegistry): after a sweep with timeout = 0 the directory
\* is empty.
C6_SweepZeroEmptiesAsClaimed ==
    (last.op = "remove_timed_out" /\ last.timeout = 0) => get_all(peers) = {}

\* C6 (SpecRegistry): a sweep with timeout = 0 at clock reading now removes
\* exactly the entries whose last_seen is earlier than now; an entry whose
\* last_seen is the reading of the sweep itself stays.
C6_SweepZero ==
    [][(last'.op = "remove_timed_out" /\ last'.timeout = 0 /\ now' = now) =>
        /\ get_all(peers') = {p \in get_all(peers) : p.last_seen = now}
        /\ last'.removed = {p \in get_all(peers) : p.last_seen < now}]_vars

\* C6 witness: a sweep with timeout = 0 has removed a record of Alice that had
\* been refreshed after the start, and the listing is empty.
C6_Witness ==
    /\ last.op = "remove_timed_out" /\ last.timeout = 0
    /\ get_all(peers) = {}
    /\ \E p \in last.removed : p.nickname = "Alice" /\ p.last_seen > 0

\* C7 (LiveSpec): record lifecycle.  The upsert of an Announce from an id that
\* is absent creates the record as built on receipt; the upsert of an Announce
\* from an id that is present sets its last_seen to the time of the upsert and
\* its nickname to the announced one; a sweep removes every record with
\* now - last_seen > peer_timeout; and every record whose last_seen +
\* peer_timeout lies before the end of the clock is eventually removed, unless
\* Announces refresh it to a last_seen for which that no longer holds: again
\* and again the directory holds no such record.
C7_Lifecycle ==
    /\ [][(last'.op = "upsert" /\ now' = now) =>
            LET r == last'.peer[1] IN
            /\ r = peer[1]
            /\ r.id \notin DOMAIN peers => peers'[r.id] = r
            /\ r.id \in DOMAIN peers =>
                  /\ peers'[r.id].last_seen = now
                  /\ peers'[r.id].nickname = r.nickname]_vars
    /\ [][(last'.op = "remove_timed_out" /\ now' = now) =>
            \A i \in DOMAIN peers :
                now - peers[i].last_seen > peer_timeout => i \notin DOMAIN peers']_vars
    /\ []<>(\A i \in DOMAIN peers : peers[i].last_seen + peer_timeout >= MaxTime)

\* C7 witness: a record that had been refreshed by a later Announce has been
\* removed by the cleanup task's sweep.
C7_Witness ==
    /\ last.op = "remove_timed_out"
    /\ \E p \in last.removed : p.last_seen > 0 /\ p.id \notin DOMAIN peers

\* C8 (Spec): the Peer the listen task is about to upsert has the source IP of
\* the datagram and the tcp_port of its body as address and from_addr of that
\* address as id, whatever else the body carries; and so has every entry.
C8_ObservedAddress ==
    /\ listen_pc = "upsert" =>
          /\ peer[1].addr = SocketAddr(dgram[1].from.ip, dgram[1].data.tcp_port)
          /\ peer[1].id = from_addr(peer[1].addr)
    /\ \A i \in DOMAIN peers :
          /\ peers[i].addr.ip \in Ips
          /\ peers[i].addr.port \in Ports
          /\ peers[i].id = from_addr(peers[i].addr)
          /\ i = peers[i].id

\* C8 witness: an Announce whose body names another IP is about to be upserted.
C8_Witness ==
    /\ listen_pc = "upsert"
    /\ "ip" \in dgram[1].data.keys
    /\ dgram[1].data.ip # dgram[1].from.ip

\* C9 (Spec): the step that receives a Goodbye leaves the directory as it was,
\* and an entry leaves the directory only as one of the records a sweep
\* returns.
C9_GoodbyeAdvisory ==
    /\ [][last'.op = "recv_goodbye" => peers' = peers /\ listen_pc' = "recv"]_vars
    /\ [][\A i \in DOMAIN peers \ DOMAIN peers' :
            last'.op = "remove_timed_out" /\ peers[i] \in last'.removed]_vars

\* C9 witness: a Goodbye naming a listed peer has just been received and the
\* peer is still listed.
C9_Witness ==
    /\ last.op = "recv_goodbye"
    /\ \E p \in get_all(peers) : p.nickname = last.nickname

\* C10 (Spec): the step that receives a datagram that does not decode leaves
\* the directory and the pending Peer as they were and returns to recv_from;
\* the listen task never stops.
C10_MalformedIgnored ==
    /\ [][last'.op = "recv_malformed" =>
            peers' = peers /\ peer' = peer /\ listen_pc' = "recv"]_vars
    /\ [](listen_pc \in {"recv", "upsert"})

\* C10 witness: after a datagram failed to decode, an Announce has been
\* received and upserted.
C10_Witness ==
    /\ malformed_seen
    /\ last.op = "upsert"
    /\ last.peer[1].id \in DOMAIN peers

\* C11 (SpecRun): failure policy of the discovery service.  DiscoveryService::run
\* never returns a success value: whenever it has returned, which it does only
\* once one of its three tasks has terminated, the value is an error.
C11_RunReportsFailure ==
    run_result # "pending" => run_result = "Err"

\* A step in which a send_message call returns, and one in which a call
\* starts (with the arguments send'.to and send'.content).
SendReturns == send'.pc = "idle" /\ send' # send
SendStarts == send.pc = "idle" /\ send' # send

\* C12 (SpecSend): a send_message(to, content) called when no entry of the
\* directory has the nickname `to` returns PeerNotFound(to) from the very step
\* that read the directory: it never reaches the connect, no connection
\* changes, and nothing is put on the event channel.
C12_PeerNotFound ==
    [][ (SendStarts /\ ~\E p \in get_all(peers) : p.nickname = send'.to)
            => /\ send'.pc = "idle"
               /\ send'.result = PeerNotFound(send'.to)
               /\ conns' = conns
               /\ sent' = sent ]_vars

C12_Witness ==
    /\ send.pc = "idle"
    /\ send.result = PeerNotFound("bob")
    /\ \E p \in get_all(peers) : p.nickname = "Bob"
    /\ \A c \in ConnIds : conns[c] = NoConn
    /\ sent = <<>>

\* C13 (SpecSend): every send_message call that returns an error (peer not
\* found, connect failure, write or flush failure) puts a SendError event with
\* the target nickname and the error on the event channel.
C13_SendErrorEmitted ==
    [][ (SendReturns /\ send'.result # Ok)
            => sent' = Append(sent, SendError(send'.to, send'.result)) ]_vars

C16_FirstMatch ==
    /\ [][ SendStarts =>
            /\ (send'.pc = "connect") <=> (\E p \in get_all(peers) : p.nickname = send'.to)
            /\ send'.pc = "connect" =>
                 /\ send'.peers \in Orders(get_all(peers))
                 /\ \E i \in DOMAIN send'.peers :
                      /\ send'.peers[i].nickname = send'.to
                      /\ \A j \in 1..(i - 1) : send'.peers[j].nickname # send'.to
                      /\ send'.target = <<send'.peers[i]>> ]_vars
    /\ [](send.pc \in {"write_data", "write_newline", "flush"} =>
            /\ {c \in ConnIds : conns[c].client = "send" /\ conns[c].open} = {send.conn}
            /\ send.target[1].addr = ListenerAddr)
    /\ [](\A c \in ConnIds : conns[c].ok =>
            Cardinality({i \in DOMAIN conns[c].written : conns[c].written[i] = LF}) = 1)

C16_Witness ==
    /\ send.pc = "connect"
    /\ Len(send.peers) = 2
    /\ send.peers[1].nickname = send.to /\ send.peers[2].nickname = send.to
    /\ send.peers[1].addr # send.peers[2].addr
    /\ send.target = <<send.peers[1]>>
    /\ send.target[1].addr # ListenerAddr

\* C17 (SpecSend): send_message holds no guard of the directory lock while it
\* is suspended in connect, write_all or flush: whenever a call is there, the
\* write lock can be granted, so the listen task's upsert and the cleanup
\* task's remove_timed_out are enabled (and a reader, get_all, with them).
C17_NoLockAcrossNetwork ==
    send.pc \in {"connect", "write_data", "write_newline", "flush"} =>
        /\ "send" \notin guards
        /\ can_write(guards)
        /\ \A p \in MsgPeers : ENABLED PeerAnnounced(p)
        /\ ENABLED Sweep

\* a call stalled in connect whose directory is no longer the one it read
C17_Witness ==
    /\ send.pc = "connect"
    /\ get_all(peers) # {send.peers[i] : i \in DOMAIN send.peers}

\* C15 (SpecMessaging): a successful send_message and its reader.  The step in
\* which connect succeeds opens one new connection, to the address of the peer
\* found; when the call returns Ok, that connection carries exactly the JSON
\* text of TextMessage{from: local nickname, content: the content given}, then
\* one newline, and is closed.  A listener that has read such a connection to
\* its end, its event receiver alive, has put exactly one Received event on its
\* channel for it, with that from and that content, whatever the content
\* (empty, with line breaks, with quotes and backslashes).
C15_OneLineOneEvent ==
    /\ [][ send.pc = "connect" /\ send'.pc = "write_data" =>
            /\ send.target[1].addr = ListenerAddr
            /\ conns[send'.conn].client = "none"
            /\ conns'[send'.conn].client = "send"
            /\ \A c \in ConnIds \ {send'.conn} : conns'[c] = conns[c] ]_vars
    /\ [][ SendReturns /\ send'.result = Ok =>
            /\ conns'[send.conn].written =
                 to_string(TextMessageNew(Text(LocalNickname), send.content, now)) \o <<LF>>
            /\ ~conns'[send.conn].open ]_vars
    /\ [](\A c \in ConnIds :
            /\ conns[c].client = "send" => Len(inbox[c]) <= 1
            /\ conns[c].ok /\ conns[c].nread = Len(conns[c].written) /\ rx_open =>
                 \E content \in Contents :
                    /\ conns[c].written =
                         to_string(TextMessageNew(Text(LocalNickname), content, now)) \o <<LF>>
                    /\ inbox[c] = <<Received(TextMessageNew(Text(LocalNickname), content, now))>>)

C15_Witness ==
    \E c \in ConnIds :
        /\ conns[c].ok
        /\ conns[c].handler = "done"
        /\ inbox[c] = <<Received(TextMessageNew(Text(LocalNickname), <<"a", CR, LF, "b">>, now))>>
        /\ sent # <<>>

\* the lines a handler has read from the bytes w, in order: each "\n" ends
\* one, and an unterminated rest counts when the handler has read it too
RECURSIVE lines_of(_)
lines_of(w) ==
    IF w = <<>> THEN <<>>
    ELSE LET i == index_of(w, LF, 1)
         IN  IF i = 0 THEN <<w>>
             ELSE <<strip_cr(SubSeq(w, 1, i - 1))>> \o lines_of(SubSeq(w, i + 1, Len(w)))

\* the Received events of the lines of L that decode, in order
RECURSIVE events_of(_)
events_of(L) ==
    IF L = <<>> THEN <<>>
    ELSE (IF from_str(Head(L)).ok THEN <<Received(from_str(Head(L)).msg)>> ELSE <<>>)
            \o events_of(Tail(L))

lines_read(conn) == lines_of(SubSeq(conn.written, 1, conn.nread))

\* C18 (SpecInbound): the accept loop does not wait for handlers.  Whenever an
\* established connection has not been accepted yet, the accept step is
\* enabled, whatever the handlers of earlier connections are doing (waiting on
\* an open connection that sends nothing included); and a step in which a
\* handler puts a Received event on the channel leaves every other connection
\* and its handler as they were.
C18_AcceptNotBlocked ==
    /\ [](    (\E c \in ConnIds : conns[c].client # "none" /\ conns[c].handler = "none")
           => ENABLED Accept)
    /\ [][ \A c \in ConnIds :
            inbox'[c] # inbox[c] =>
                \A d \in ConnIds \ {c} : conns'[d] = conns[d] /\ inbox'[d] = inbox[d] ]_vars

\* the first connection is accepted, open and silent, its handler waiting; the
\* second, made later, has had a valid line turned into a Received event
C18_Witness ==
    /\ conns[1].handler = "reading" /\ conns[1].open /\ conns[1].written = <<>>
    /\ conns[2].handler = "reading"
    /\ inbox[2] = <<Received(RawMessage)>>

\* C19 (SpecInbound): a line that fails to decode is skipped.  The handler's
\* step on such a line puts nothing on the channel and leaves the handler
\* reading the same connection; and, the event receiver alive, the events of
\* a connection are at every moment the Received events of the valid lines
\* read from it so far, in order, those that follow invalid lines included.
C19_BadLineSkipped ==
    /\ [][ \A c \in ConnIds :
            (/\ conns[c].handler = "reading"
             /\ conns'[c].nread > conns[c].nread
             /\ ~from_str(next_line(unread(conns[c]), ~conns[c].open).line).ok)
                => inbox'[c] = inbox[c] /\ conns'[c].handler = "reading" ]_vars
    /\ [](\A c \in ConnIds : rx_open => inbox[c] = events_of(lines_read(conns[c])))

C19_Witness ==
    \E c \in ConnIds :
        /\ Len(lines_read(conns[c])) = 2
        /\ ~from_str(lines_read(conns[c])[1]).ok
        /\ from_str(lines_read(conns[c])[2]).ok
        /\ inbox[c] = <<Received(RawMessage)>>
        /\ conns[c].handler = "reading"

\* C20 (LiveInbound): a handler ends.  Once the client's end of a connection
\* is closed, its handler, being scheduled, reaches its end: a closed
\* connection never stays with its handler reading (a closed connection stays
\* closed and an ended handler stays ended, so over and over no handler is
\* reading a closed connection).  The step that ends a handler on end of
\* stream or on a read error consumes no line, and by then every valid line
\* read from the connection has its Received event on the channel.
C20_HandlerTerminates ==
    /\ []<>(\A c \in ConnIds : conns[c].handler = "reading" => conns[c].open)
    /\ [][ \A c \in ConnIds :
            (conns[c].handler = "reading" /\ conns'[c].handler = "done" /\ rx_open)
                => /\ conns'[c].nread = conns[c].nread
                   /\ inbox'[c] = inbox[c]
                   /\ inbox[c] = events_of(lines_read(conns[c])) ]_vars

C20_Witness ==
    \E c \in ConnIds :
        /\ conns[c].handler = "done"
        /\ ~conns[c].open
        /\ conns[c].nread = Len(conns[c].written)
        /\ Len(inbox[c]) = 2
        /\ rx_open

\* C21 (SpecApp): the Announces carry the listener's port.  The discovery
\* service is constructed only with the messaging listener bound, and every
\* Announce the announce task has sent decodes to the local nickname and the
\* port the listener is bound to, which is never 0.
C21_AnnouncesBoundPort ==
    /\ (app.pc = "new_discovery" \/ app.discovery # <<>>) => app.listener # 0
    /\ \A i \in DOMAIN app.announced :
          /\ from_slice(app.announced[i]).ok
          /\ from_slice(app.announced[i]).variant = "Announce"
          /\ from_slice(app.announced[i]).tcp_port = app.listener
          /\ from_slice(app.announced[i]).tcp_port # 0

\* port 0 was requested, and an Announce has gone out with the assigned port
C21_Witness ==
    /\ app.requested = 0
    /\ app.announced # <<>>
    /\ app.announced[1].tcp_port = app.listener
    /\ app.listener \in Ports

\* C22 (SpecApp): a failed start.  A step of App::run that produces an error
\* is a constructor's, it leaves App::run returned with that error (the bind
\* error of the listener, the I/O error of the discovery socket's bind, the
\* multicast join error), and from then on no task has been spawned,
\* DiscoveryService::run has not started, no Announce has been sent, no
\* connection accepted and nothing put in the directory.
C22_StartupFailure ==
    /\ [][ app'.result \notin {NoResult, Ok} /\ app'.result # app.result =>
             /\ app.pc \in {"new_messaging", "local_addr", "new_discovery"}
             /\ app'.pc = "returned"
             /\ app.pc = "new_messaging" =>
                    app'.result \in {BindError("0.0.0.0"), Network("local_addr")}
             /\ app.pc = "new_discovery" =>
                    app'.result \in {Network("socket"), Network("bind"),
                                     MulticastJoinError("239.255.255.250")} ]_vars
    /\ [][ app.pc \in {"new_messaging", "local_addr", "new_discovery"}
             /\ app'.pc # app.pc /\ app'.result = NoResult => app'.listener # 0 ]_vars
    /\ [](app.result \notin {NoResult, Ok} =>
             /\ app.pc = "returned"
             /\ \A t \in AppTasks : app.task[t] = "none"
             /\ ~app.run_started
             /\ app.announced = <<>>
             /\ \A c \in ConnIds : conns[c].handler = "none" /\ inbox[c] = <<>>
             /\ peers = EmptyRegistry)

\* the listener was bound, the multicast join failed, the process has ended
C22_Witness ==
    /\ app.result = MulticastJoinError("239.255.255.250")
    /\ app.actual_tcp_port \in Ports
    /\ app.runtime = "down"

\* C23 (SpecApp): once App::run has aborted its tasks and returned, no
\* Announce is sent, the listen and cleanup tasks do nothing to the
\* directory, no connection is accepted and no handler reads a line or puts
\* a Received event on the channel.
C23_NoStepAfterAbort ==
    [][ app.pc = "returned" /\ app.result = Ok =>
          /\ app'.announced = app.announced
          /\ peers' = peers /\ listen_pc' = listen_pc /\ last' = last
          /\ \A c \in ConnIds : /\ conns'[c].handler = conns[c].handler
                                /\ conns'[c].nread = conns[c].nread
                                /\ inbox'[c] = inbox[c] ]_vars

\* an upsert of caller t returns in this step
UpsertReturns(t) == reg.call[t].pc # "idle" /\ reg'.call[t].pc = "idle"

\* C24 (SpecCallers): read-after-write.  When an upsert returns, the entry of
\* its id has the nickname and the address it was passed, and that entry is
\* what the last completed write left; the entry of an id in that history
\* changes only in a step in which an upsert or a removal of that id returns
\* (or a sweep); and get and get_all return exactly the entries the last
\* completed writes left.
C24_ReadAfterWrite ==
    /\ [][ \A t \in Callers : UpsertReturns(t) =>
             LET p == reg.call[t].p[1] IN
                /\ p.id \in DOMAIN peers'
                /\ peers'[p.id].nickname = p.nickname
                /\ peers'[p.id].addr = p.addr
                /\ reg'.committed = peers' ]_vars
    /\ [][ \A a \in MsgAddrs :
             get(reg'.committed, from_addr(a)) # get(reg.committed, from_addr(a)) =>
                \/ reg'.done.op \in {"upsert", "remove"} /\ reg'.done.id = <<from_addr(a)>>
                \/ reg'.done.op = "remove_timed_out" ]_vars
    /\ [](reg.done.op = "get" =>
            reg.done.records = {r \in get_all(reg.committed) : r.id = reg.done.id[1]})
    /\ [](reg.done.op = "get_all" => reg.done.records = get_all(reg.committed))

\* a get returns the record as the second of two upserts of its id left it:
\* the nickname of the upsert that came last, refreshed after the first
C24_Witness ==
    /\ reg.done.op = "get"
    /\ reg.raced
    /\ \E r \in reg.done.records :
          /\ r.nickname = reg.winner[r.id].nickname
          /\ r.nickname = "Bob"
          /\ r.last_seen > 0

\* C25 (SpecCallers): no partly updated record is read.  While a caller holds
\* the write guard in the middle of upsert's statements, only its own
\* statements change the map; its refresh writes the clock's reading; when it
\* returns, the record has the nickname and address passed and the last_seen
\* that its own refresh (or the Peer inserted) carried; and every record a
\* get or get_all returns is a record as a completed write left it.
C25_NoPartialRecord ==
    /\ [][ \A t \in Callers :
             reg.call[t].pc \in {"refreshed", "nicknamed"} /\ peers' # peers =>
                reg'.call[t].pc # reg.call[t].pc ]_vars
    /\ [][ \A t \in Callers :
             reg.call[t].pc = "write" /\ reg'.call[t].pc = "refreshed" =>
                peers'[reg.call[t].p[1].id].last_seen = now ]_vars
    /\ [][ \A t \in Callers : UpsertReturns(t) =>
             LET p == reg.call[t].p[1] IN
                reg'.committed[p.id] =
                    [id |-> p.id, nickname |-> p.nickname, addr |-> p.addr,
                     last_seen |-> IF reg.call[t].pc = "write" THEN p.last_seen
                                   ELSE peers[p.id].last_seen] ]_vars
    /\ [](reg.done.op \in {"get", "get_all"} =>
            reg.done.records \subseteq get_all(reg.committed))

\* a record is partly updated (refreshed, the old nickname still in it), its
\* writer holds the guard, and no read is granted
C25_Witness ==
    \E t \in Callers :
        /\ reg.call[t].pc = "refreshed"
        /\ LET p == reg.call[t].p[1] IN
              /\ peers[p.id].nickname # p.nickname
              /\ peers[p.id].last_seen # reg.committed[p.id].last_seen
        /\ ~ENABLED RegGetAll

\* C26 (SpecCallers): two upserts of one id.  With no upsert holding the
\* write guard, the map has one entry for each id that has been upserted and
\* not removed since, with the nickname passed to the upsert that got the
\* guard last and an address of that id.
C26_LastWriterWins ==
    guards \cap Callers = {} =>
        \A id \in DOMAIN peers \cap DOMAIN reg.winner :
            /\ Cardinality({r \in get_all(peers) : r.id = id}) = 1
            /\ peers[id].nickname = reg.winner[id].nickname
            /\ from_addr(peers[id].addr) = id

\* both callers' upserts of one id were in flight together, both have
\* returned, and the entry has the second one's nickname
C26_Witness ==
    /\ reg.raced
    /\ \A t \in Callers : reg.call[t].pc = "idle"
    /\ from_addr(ListenerAddr) \in DOMAIN peers
    /\ peers[from_addr(ListenerAddr)].nickname = reg.winner[from_addr(ListenerAddr)].nickname
    /\ reg.done.op = "upsert"

\* C27 (SpecCallers): get, remove, count.  get returns the record stored
\* under the id, or nothing; remove takes exactly the entry of its id out of
\* the map, which is no change when there is none; count returns the number
\* of records get_all returns.
C27_GetRemoveCount ==
    /\ [](reg.done.op = "get" =>
            reg.done.records = IF reg.done.id[1] \in DOMAIN peers
                               THEN {peers[reg.done.id[1]]} ELSE {})
    /\ [][ reg'.done.op = "remove" =>
             /\ DOMAIN peers' = DOMAIN peers \ {reg'.done.id[1]}
             /\ \A i \in DOMAIN peers' : peers'[i] = peers[i] ]_vars
    /\ [](reg.done.op = "count" => reg.done.count = Cardinality(get_all(peers)))

\* a remove has taken an entry out and left another in
C27_Witness ==
    /\ reg.done.op = "remove"
    /\ reg.done.records # {}
    /\ peers # EmptyRegistry

\* C28 (SpecPure): the discovery codec.  Decoding the encoding of an Announce
\* or a Goodbye gives the same variant with the same nickname and port; the
\* encoding has a "type" key whose value is "announce" or "goodbye" as the
\* variant is; and an object whose "type" is neither fails to decode.
C28_DiscoveryCodec ==
    /\ call.fn = "discovery_roundtrip" =>
          /\ call.output.decoded.ok
          /\ call.output.decoded.variant = call.input.variant
          /\ call.output.decoded.nickname = call.input.nickname
          /\ call.output.decoded.tcp_port = call.input.tcp_port
          /\ "type" \in call.output.wire.keys
          /\ call.output.wire.type =
                IF call.input.variant = "Announce" THEN "announce" ELSE "goodbye"
    /\ (/\ call.fn = "from_slice"
        /\ call.input.json
        /\ "type" \in call.input.keys
        /\ call.input.type \notin {"announce", "goodbye"}) => ~call.output.ok

\* an Announce with the largest port has gone through the codec
C28_Witness ==
    /\ call.fn = "discovery_roundtrip"
    /\ call.input = Announce("Alice", U16_MAX)
    /\ call.output.decoded.tcp_port = U16_MAX

\* C29 (SpecPure): the text message codec.  Decoding the encoding of a
\* TextMessage succeeds and gives the same from, content and timestamp.
C29_TextCodec ==
    call.fn = "text_roundtrip" =>
        /\ call.output.decoded.ok
        /\ call.output.decoded.msg.from = call.input.from
        /\ call.output.decoded.msg.content = call.input.content
        /\ call.output.decoded.msg.timestamp = call.input.timestamp

\* a message with a non-ASCII content, from a name with a quote in it, has
\* gone through the codec
C29_Witness ==
    /\ call.fn = "text_roundtrip"
    /\ call.input.content = <<NONASCII>>
    /\ call.input.from = <<QUOTE, NONASCII>>
    /\ call.output.decoded.msg = call.input

\* the line is "/send" alone or "/send" and one word
fewer_than_two_arguments(input) ==
    \/ input = <<"/", "send">>
    \/ /\ Len(input) >= 3
       /\ SubSeq(input, 1, 3) = <<"/", "send", SPACE>>
       /\ index_of(input, SPACE, 4) = 0

\* the word after the '/' of a line that starts with one
command_word(input) == splitn2(Tail(input))[1]
CommandWords == {<<"send">>, <<"peers">>, <<"quit">>, <<"exit">>, <<"q">>, <<"help">>, <<"h">>}

\* C30 as stated (SpecPure): "/send n m" parses to Send{to: n, content: m}
\* for every nickname without spaces and every non-empty message; a /send
\* with fewer than two arguments gives MissingArguments; a line that does not
\* start with '/' gives NotACommand; an unrecognized word gives
\* UnknownCommand.
C30_ParseAsClaimed ==
    /\ call.fn = "parse_send" => call.output = Send(call.input.n, call.input.m)
    /\ call.fn = "parse" /\ fewer_than_two_arguments(call.input) =>
          call.output = MissingArguments
    /\ call.fn = "parse" /\ ~starts_with(call.input, "/") => call.output = NotACommand
    /\ (/\ call.fn = "parse"
        /\ starts_with(call.input, "/")
        /\ command_word(call.input) \notin CommandWords)
          => call.output = UnknownCommand(command_word(call.input))

\* C30 (SpecPure): Command::parse trims the line first.  "/send n m" parses
\* to Send{to: n, content: m} for every nickname without spaces and every
\* message that does not end in whitespace; a message that does loses its
\* trailing whitespace, and the line lacks its arguments when nothing of the
\* message is left.  A trimmed /send with fewer than two arguments gives
\* MissingArguments, a line whose trimmed text does not start with '/' gives
\* NotACommand, and an unrecognized word gives UnknownCommand.
C30_Parse ==
    /\ call.fn = "parse_send" =>
          IF trim_end(call.input.m) # <<>>
          THEN call.output = Send(call.input.n, trim_end(call.input.m))
          ELSE call.output = MissingArguments
    /\ call.fn = "parse" /\ fewer_than_two_arguments(trim(call.input)) =>
          call.output = MissingArguments
    /\ call.fn = "parse" /\ ~starts_with(trim(call.input), "/") =>
          call.output = NotACommand
    /\ (/\ call.fn = "parse"
        /\ starts_with(trim(call.input), "/")
        /\ command_word(trim(call.input)) \notin CommandWords)
          => call.output = UnknownCommand(command_word(trim(call.input)))

\* "/send bob hello " has been parsed: the content is "hello"
C30_Witness ==
    /\ call.fn = "parse_send"
    /\ call.input = [n |-> <<"bob">>, m |-> <<"hello", SPACE>>]
    /\ call.output = Send(<<"bob">>, <<"hello">>)

\* C31 (SpecPure): NicknameValidator::validate accepts a nickname exactly when
\* it has between 1 and 32 characters, holds no control character, and has no
\* whitespace at its start or its end.
C31_ValidateAccepts ==
    call.fn = "validate" =>
        (call.output = "Ok" <=>
            /\ Len(call.input) \in MIN_LENGTH..MAX_LENGTH
            /\ \A i \in 1..Len(call.input) : ~is_control(call.input[i])
            /\ ~is_whitespace(call.input[1])
            /\ ~is_whitespace(call.input[Len(call.input)]))

\* C32 (SpecCallers): every entry of the directory is stored under the key
\* that is its own id, and no step changes the id of an entry that stays in
\* the directory, the statements of an upsert on an existing entry included.
C32_KeyIsId ==
    /\ [](\A i \in DOMAIN peers : peers[i].id = i)
    /\ [][\A i \in DOMAIN peers \cap DOMAIN peers' : peers'[i].id = peers[i].id]_vars

\* an upsert is between its statements on an entry that exists
C32_Witness ==
    \E t \in Callers :
        /\ reg.call[t].pc = "nicknamed"
        /\ reg.call[t].p[1].id \in DOMAIN peers
        /\ peers[reg.call[t].p[1].id].nickname = reg.call[t].p[1].nickname
        /\ count(peers) = 2

\* C33 (SpecSnapshot): send_message acts on the vector get_all returned at its
\* start.  The record it connects to is one of that vector, nothing the
\* directory does afterwards changes the vector or the record, and the
\* connection that is made is to the address of that record.
C33_ActsOnSnapshot ==
    [][/\ (send.pc = "idle" /\ send'.pc = "connect") =>
              /\ send'.peers \in Orders(get_all(peers))
              /\ send'.target[1] \in get_all(peers)
              /\ send'.target[1].nickname = send'.to
       /\ (send.pc # "idle" /\ send'.pc # "idle") =>
              /\ send'.peers = send.peers
              /\ send'.target = send.target
       /\ (send.pc = "connect" /\ send'.pc = "write_data") =>
              send.target[1].addr = ListenerAddr]_vars

\* a call has returned Ok and put its Sent on the channel, and the directory,
\* swept since the call began, holds no peer of that nickname
C33_Witness ==
    /\ send.pc = "idle"
    /\ send.result = Ok
    /\ sent # <<>>
    /\ sent[Len(sent)] = Sent(send.to, send.content)
    /\ \A q \in get_all(peers) : q.nickname # send.to

\* C34 (SpecRun): when DiscoveryService::run returns because one of its tasks
\* has terminated, the other two are not cancelled.  The return leaves every
\* task as it was, a task stops only by terminating itself, and after the
\* return each task still running can take its step: the announce task sends,
\* the listen task receives or upserts, the cleanup task sweeps.
C34_TasksOutliveRun ==
    /\ [][(run_result = "pending" /\ run_result' # "pending") => tasks' = tasks]_vars
    /\ [][\A t \in DiscoveryTasks :
            tasks'[t] # tasks[t] => tasks[t] = "running" /\ tasks'[t] = "terminated"]_vars
    /\ [](run_result # "pending" =>
            /\ (tasks["announce"] = "running" /\ Len(app.announced) < MaxAnnounces)
                  => ENABLED RunAnnounce("ok")
            /\ tasks["listen"] = "running"
                  => ENABLED (ListenUpsert \/ \E dg \in RunDatagrams : ListenRecv(dg))
            /\ tasks["cleanup"] = "running" => ENABLED Cleanup)

\* the listen task has terminated, run has returned, and since then the
\* announce task has sent an Announce; the cleanup task is still there
C34_Witness ==
    /\ run_result # "pending"
    /\ tasks = [t \in DiscoveryTasks |-> IF t = "listen" THEN "terminated" ELSE "running"]
    /\ last.op = "announce"
    /\ app.announced # <<>>

C36_InputAwaitsSend ==
    /\ [][send.pc # "idle" =>
            /\ reg'.done = reg.done
            /\ app'.task["input"] = app.task["input"]
            /\ send'.pc # "idle" => (send'.to = send.to /\ send'.content = send.content)]_vars
    /\ []((app.pc = "select" /\ send.pc # "idle") => ENABLED AppSelect("ctrl_c"))

\* App::run has shut down and returned while the send is still at its
\* connect, the input task never having ended
C36_Witness ==
    /\ app.pc = "returned"
    /\ app.result = Ok
    /\ app.task["input"] = "running"
    /\ send.pc = "connect"
    /\ reg.done.op = "get_all"

\* C37 (SpecOrder): the Received events of one connection are emitted, and
\* taken by the event handler, in the order its lines arrived.  The events of
\* a connection only grow at the end, by one event in a step that reads one
\* line, which then is a valid line of that message; they are at every moment
\* the events of the valid lines read so far, in order; and what the event
\* handler has taken of them is their beginning.
C37_EventsInLineOrder ==
    /\ [][\A c \in ConnIds :
            inbox'[c] # inbox[c] =>
                LET r == next_line(unread(conns[c]), ~conns[c].open) IN
                /\ r.kind = "line"
                /\ from_str(r.line).ok
                /\ inbox'[c] = Append(inbox[c], Received(from_str(r.line).msg))
                /\ conns'[c].nread = conns[c].nread + r.used]_vars
    /\ [](\A c \in ConnIds :
            /\ inbox[c] = events_of(lines_read(conns[c]))
            /\ Len(app.shown[c]) <= Len(inbox[c])
            /\ app.shown[c] = SubSeq(inbox[c], 1, Len(app.shown[c])))

\* a connection has carried two different messages, and the event handler has
\* taken both events, the first line's first
C37_Witness ==
    \E c \in ConnIds :
        /\ app.shown[c] = <<Received(SecondMessage), Received(RawMessage)>>
        /\ inbox[c] = app.shown[c]
        /\ Len(lines_read(conns[c])) = 2

\* C38 (SpecInbound): a handler stops at the first Received event it cannot
\* deliver.  The step that reads a valid line when the event receiver is gone
\* ends the handler and puts nothing on the channel; an ended handler reads
\* nothing more and its connection gets no further event, whatever is still
\* unread or written later; and no event is put on the channel once the
\* receiver is gone.
C38_StopsWhenReceiverGone ==
    /\ [][\A c \in ConnIds :
            (/\ conns[c].handler = "reading"
             /\ ~rx_open
             /\ conns'[c].nread > conns[c].nread
             /\ from_str(next_line(unread(conns[c]), ~conns[c].open).line).ok)
                => conns'[c].handler = "done" /\ inbox'[c] = inbox[c]]_vars
    /\ [][\A c \in ConnIds :
            conns[c].handler = "done" =>
                /\ conns'[c].handler = "done"
                /\ conns'[c].nread = conns[c].nread
                /\ inbox'[c] = inbox[c]]_vars
    /\ [][~rx_open => inbox' = inbox]_vars

\* the receiver is gone, a handler has read the first of two valid lines and
\* has stopped; the second line is unread on the open connection, and the
\* connection has no event
C38_Witness ==
    \E c \in ConnIds :
        /\ ~rx_open
        /\ conns[c].handler = "done"
        /\ conns[c].open
        /\ Len(lines_read(conns[c])) = 1
        /\ events_of(lines_of(unread(conns[c]))) = <<Received(RawMessage)>>
        /\ inbox[c] = <<>>

\* C39 (SpecApp): the application never transmits a Goodbye.  Every datagram
\* it has sent to the group decodes to an Announce, in every run and up to
\* the end of the process; the shutdown of App::run sends nothing; and an
\* entry leaves the directory of a node only in a step of its sweep.
C39_NoGoodbyeSent ==
    /\ [](\A i \in DOMAIN app.announced :
            /\ from_slice(app.announced[i]).ok
            /\ from_slice(app.announced[i]).variant = "Announce")
    /\ [][app'.pc = "returned" /\ app.pc # "returned" => app'.announced = app.announced]_vars
    /\ [][(\E i \in DOMAIN peers : i \notin DOMAIN peers') =>
            last'.op = "remove_timed_out" /\ last'.removed # {}]_vars

\* the application has announced itself, has shut down and the process has
\* ended, all it has sent being Announces; a peer heard earlier is still in
\* its directory
C39_Witness ==
    /\ app.runtime = "down"
    /\ app.result = Ok
    /\ Len(app.announced) = MaxAnnounces
    /\ peers # EmptyRegistry

\* C40 (LiveLock): no interleaving of the registry's callers deadlocks on its
\* lock.  Every upsert that has started returns, and every remove,
\* remove_timed_out, get_all, get and count queued on the lock returns; a call
\* holds the guard from its one acquisition to its return and at most one
\* does; and the holder's next statement never waits for anything.  (A call
\* in flight always returns later: from every state on, a state with that
\* call not in flight follows.)
C40_EveryCallReturns ==
    /\ \A t \in Callers : []<>(reg.call[t].pc = "idle")
    /\ \A op \in OneShot : []<>(~waiting(op))
    /\ [](/\ Cardinality(guards) <= 1
          /\ \A t \in Callers : t \in guards <=> reg.call[t].pc \in {"refreshed", "nicknamed"})
    /\ [](\A t \in Callers : t \in guards => ENABLED (UpsertNickname(t) \/ UpsertAddr(t)))

\* one upsert holds the guard while the other upsert and all five other
\* calls are queued on the lock
C40_Witness ==
    /\ \E t \in Callers : t \in guards /\ \A u \in Callers \ {t} : reg.call[u].pc = "write"
    /\ reg.wait = OneShot

====
